---- MODULE Spec2Model ----
(***************************************************************************)
(* A model of the Code-Mentor diagnostic pipeline:                         *)
(*   app/ml_classifier.py   EnhancedConceptClassifier (heuristic detectors *)
(*                          and the predict_concept priority chain)        *)
(*   app/llm_utils.py       EnhancedLLMSuggestionEngine                    *)
(*   app/compiler_analyzer.py CompilerAnalyzer                             *)
(*   app/routes.py          the /api/analyze handler                       *)
(*                                                                         *)
(* Source text is modelled as TLA+ strings, one character per position, so *)
(* the substring tests and regular expressions of the detectors are        *)
(* computed on the same characters the Python code sees.  Confidences are  *)
(* integers in hundredths (0.95 is 95).                                    *)
(***************************************************************************)
EXTENDS Integers, Sequences, FiniteSets, TLC

(***************************************************************************)
(* Bounds of the model.                                                    *)
(***************************************************************************)
\* Number of vocabulary lines a classified code is made of, at most.
MaxLines == 2
\* How many characters over the truncation limit a code handed to the
\* suggestion engine is, at most.
MaxExcess == 2
\* How many analyze_code calls run at once, at most.
NumCalls == 2
\* Number of characters of a text handed to the bracket scan, at most.
MaxBracketLen == 4

(***************************************************************************)
(* Python str primitives.                                                  *)
(***************************************************************************)
None == "None"

\* s[i] for a 1-based position i of s
Ch(s, i) == SubSeq(s, i, i)

\* s.startswith(p, i-1): p occurs in s at position i
HasAt(s, p, i) == /\ i >= 1
                  /\ i + Len(p) - 1 <= Len(s)
                  /\ SubSeq(s, i, i + Len(p) - 1) = p

\* p in s
Contains(s, p) == \E i \in 1..(Len(s) - Len(p) + 1) : HasAt(s, p, i)

ContainsAny(s, ps) == \E p \in ps : Contains(s, p)

UpperToLower == [c \in {"A","B","C","D","E","F","G","H","I","J","K","L","M",
                        "N","O","P","Q","R","S","T","U","V","W","X","Y","Z"} |->
     CASE c = "A" -> "a" [] c = "B" -> "b" [] c = "C" -> "c" [] c = "D" -> "d"
       [] c = "E" -> "e" [] c = "F" -> "f" [] c = "G" -> "g" [] c = "H" -> "h"
       [] c = "I" -> "i" [] c = "J" -> "j" [] c = "K" -> "k" [] c = "L" -> "l"
       [] c = "M" -> "m" [] c = "N" -> "n" [] c = "O" -> "o" [] c = "P" -> "p"
       [] c = "Q" -> "q" [] c = "R" -> "r" [] c = "S" -> "s" [] c = "T" -> "t"
       [] c = "U" -> "u" [] c = "V" -> "v" [] c = "W" -> "w" [] c = "X" -> "x"
       [] c = "Y" -> "y" [] c = "Z" -> "z"]

LowerCh(c) == IF c \in DOMAIN UpperToLower THEN UpperToLower[c] ELSE c

\* s.lower(): character by character (the text is halved to keep the
\* evaluation shallow)
RECURSIVE Lower(_)
Lower(s) == IF Len(s) = 0 THEN ""
            ELSE IF Len(s) = 1 THEN LowerCh(s)
            ELSE Lower(SubSeq(s, 1, Len(s) \div 2)) \o Lower(SubSeq(s, Len(s) \div 2 + 1, Len(s)))

\* the character classes \s, \d and \w of the re module (ASCII part)
WS == {" ", "\t", "\n", "\r", "\f"}
Digit == {"0","1","2","3","4","5","6","7","8","9"}
WordCh == {"a","b","c","d","e","f","g","h","i","j","k","l","m",
           "n","o","p","q","r","s","t","u","v","w","x","y","z", "_"}
          \cup DOMAIN UpperToLower \cup Digit

\* the first position j >= i of s whose character is not in set cs
\* (Len(s) + 1 when there is none): where a greedy run cs* that starts at i ends
SkipWhile(s, i, cs) ==
    CHOOSE j \in i..(Len(s) + 1) :
        /\ j > Len(s) \/ Ch(s, j) \notin cs
        /\ \A t \in i..(j - 1) : Ch(s, t) \in cs

\* the first position j >= i of s holding character c (Len(s) + 1 when none)
Find(s, i, c) ==
    CHOOSE j \in i..(Len(s) + 1) :
        /\ j > Len(s) \/ Ch(s, j) = c
        /\ \A t \in i..(j - 1) : Ch(s, t) # c

(***************************************************************************)
(* Regular-expression steps.  A step takes the position the match has      *)
(* reached (0: the match has failed) and returns the position after the    *)
(* step.  The runs are greedy and never given back; every pattern below    *)
(* follows a run by an element that cannot match a character of the run, so*)
(* the backtracking of re finds no other match.                            *)
(***************************************************************************)
\* a literal
Lit(s, i, p) == IF i # 0 /\ HasAt(s, p, i) THEN i + Len(p) ELSE 0
\* an optional literal  p?
Opt(s, i, p) == IF i # 0 /\ HasAt(s, p, i) THEN i + Len(p) ELSE i
\* cs*
Star(s, i, cs) == IF i = 0 THEN 0 ELSE SkipWhile(s, i, cs)
\* cs+
Plus(s, i, cs) == IF i # 0 /\ i <= Len(s) /\ Ch(s, i) \in cs
                  THEN SkipWhile(s, i, cs) ELSE 0

\* s.split('\n'): the lines of s, from position i on
RECURSIVE SplitFrom(_, _)
SplitFrom(s, i) == LET e == Find(s, i, "\n")
                   IN  IF e > Len(s) THEN << SubSeq(s, i, Len(s)) >>
                       ELSE << SubSeq(s, i, e - 1) >> \o SplitFrom(s, e + 1)
Split(s) == SplitFrom(s, 1)

\* the last position j <= i of s whose character is not whitespace (0 when none)
LastNonWs(s, i) ==
    CHOOSE j \in 0..i :
        /\ j = 0 \/ Ch(s, j) \notin WS
        /\ \A t \in (j + 1)..i : Ch(s, t) \in WS

\* s.lstrip() and s.strip()
LStrip(s) == SubSeq(s, SkipWhile(s, 1, WS), Len(s))
Strip(s) == SubSeq(s, SkipWhile(s, 1, WS), LastNonWs(s, Len(s)))

(***************************************************************************)
(* EnhancedConceptClassifier: the heuristic detectors.  A detector returns *)
(* the sequence of its matches, in the order the code appends them.        *)
(***************************************************************************)
Err(issue, confidence) == [issue |-> issue, confidence |-> confidence]

\* re.search(r'#define\s+\w+\s+[^;]*;', code): after "#define", whitespace, a
\* word and whitespace, [^;]* runs to the first ';' wherever it is
DefineSemicolon(code) ==
    \E i \in 1..Len(code) :
        LET e == Plus(code, Plus(code, Plus(code, Lit(code, i, "#define"), WS), WordCh), WS)
        IN  e # 0 /\ Find(code, e, ";") <= Len(code)

CppStatementWords == {"cout", "cin", "return", "int", "long", "char", "float", "double"}

\* re.findall(r'(cout|cin|return|int|long|char|float|double).*?[^;{}\n]$', code,
\* re.MULTILINE) is non-empty: a keyword, then at least one more character on
\* its line, and the last character of that line is none of ; { }
MissingSemicolon(code) ==
    \E i \in 1..Len(code) : \E w \in CppStatementWords :
        LET k == Lit(code, i, w)
            e == Find(code, k, "\n") - 1
        IN  k # 0 /\ e >= k /\ Ch(code, e) \notin {";", "{", "}"}

PyBlockWords == {"if", "for", "while", "def", "class", "try", "except", "with", "elif", "else"}

\* re.findall(r'(if|for|while|def|class|try|except|with|elif|else)\s+[^:\n]*[^:]$',
\* code, re.MULTILINE) is non-empty: a keyword, whitespace up to a, characters
\* other than ':' and newline up to q - 1, one character other than ':' at q, and
\* q ends the text or is followed by a newline
MissingColon(code) ==
    \E i \in 1..Len(code) : \E w \in PyBlockWords :
        LET k == Lit(code, i, w)
        IN  /\ k # 0
            /\ \E a \in k..Len(code) :
                 /\ \A t \in k..a : Ch(code, t) \in WS
                 /\ \E q \in (a + 1)..Len(code) :
                      /\ \A t \in (a + 1)..(q - 1) : Ch(code, t) \notin {":", "\n"}
                      /\ Ch(code, q) # ":"
                      /\ (q = Len(code) \/ Ch(code, q + 1) = "\n")

PyIndentWords == {"if", "for", "while", "def", "class", "try", "except", "with", "elif"}

\* re.search(r'(if|for|while|def|class|try|except|with|elif).*:$', t) on a
\* stripped line t: t ends with ':' and a keyword ends before that ':'
OpensBlock(t) ==
    /\ Len(t) >= 1 /\ Ch(t, Len(t)) = ":"
    /\ \E i \in 1..Len(t) : \E w \in PyIndentWords :
          LET k == Lit(t, i, w) IN k # 0 /\ k <= Len(t)

\* _check_python_indentation: the lines (1-based numbers) it reports
RECURSIVE IndentationFrom(_, _, _)
IndentationFrom(lines, i, expected_indent) ==
    IF i > Len(lines) THEN <<>>
    ELSE LET line == lines[i]
             stripped == Strip(line)
             current_indent == Len(line) - Len(LStrip(line))
             expected == IF OpensBlock(stripped) \/ stripped \in {"else:", "finally:"}
                         THEN expected_indent + 4 ELSE expected_indent
         IN  IF stripped = "" THEN IndentationFrom(lines, i + 1, expected_indent)
             ELSE (IF current_indent # expected THEN << i >> ELSE <<>>)
                  \o IndentationFrom(lines, i + 1, expected)
_check_python_indentation(lines) == IndentationFrom(lines, 1, 0)

Openers == {"(", "[", "{"}
Closers == {")", "]", "}"}
pairs == [c \in Openers |-> CASE c = "(" -> ")" [] c = "[" -> "]" [] c = "{" -> "}"]

NoReport == [kind |-> None, opening |-> "", pos |-> 0, char |-> "", at |-> 0]

\* the first position j >= i of code that holds a bracket (Len(code) + 1 when
\* none): the scan does nothing at the characters it passes over
NextBracket(code, i) ==
    CHOOSE j \in i..(Len(code) + 1) :
        /\ j > Len(code) \/ Ch(code, j) \in Openers \cup Closers
        /\ \A t \in i..(j - 1) : Ch(code, t) \notin Openers \cup Closers

\* _check_bracket_matching: the scan from the bracket at position i (or the end
\* of the text) with the given stack of <<opener, 0-based position>>; the report
\* it returns (kind None: no report)
RECURSIVE BracketScan(_, _, _)
BracketScan(code, i, stack) ==
    IF i > Len(code)
    THEN IF stack # <<>>
         THEN [kind |-> "Unmatched opening", opening |-> stack[Len(stack)][1],
               pos |-> stack[Len(stack)][2], char |-> "", at |-> 0]
         ELSE NoReport
    ELSE LET char == Ch(code, i)
         IN  IF char \in Openers
             THEN BracketScan(code, NextBracket(code, i + 1), Append(stack, << char, i - 1 >>))
             ELSE IF stack = <<>>
                  THEN [kind |-> "Unmatched closing", opening |-> "", pos |-> 0,
                        char |-> char, at |-> i - 1]
                  ELSE LET top == stack[Len(stack)]
                       IN  IF pairs[top[1]] # char
                           THEN [kind |-> "Mismatched brackets", opening |-> top[1],
                                 pos |-> top[2], char |-> char, at |-> i - 1]
                           ELSE BracketScan(code, NextBracket(code, i + 1),
                                            SubSeq(stack, 1, Len(stack) - 1))

\* Mutant of _check_bracket_matching: the openers left on the stack at the end
\* of the text are not reported.
CheckBracketMatching_NoLeftover(code) ==
    IF BracketScan(code, NextBracket(code, 1), <<>>).kind = "Unmatched opening"
    THEN NoReport
    ELSE BracketScan(code, NextBracket(code, 1), <<>>)

_check_bracket_matching(code) == BracketScan(code, NextBracket(code, 1), <<>>)

\* the keys of all_typos, in the order of the merged dict
all_typos == << "inlcude", "reutrn", "unsined", "singned", "vecotr", "stirng",
                "dfe", "prnit", "improt", "retrun", "fro" >>

RECURSIVE TyposFrom(_, _)
TyposFrom(code, i) ==
    IF i > Len(all_typos) THEN <<>>
    ELSE (IF Contains(code, all_typos[i])
          THEN << Err("Possible typo: " \o all_typos[i], 80) >> ELSE <<>>)
         \o TyposFrom(code, i + 1)
_check_keyword_typos(code) == TyposFrom(code, 1)

IsCppLike(code) == ContainsAny(Lower(code), {"#include", "using namespace", "cout", "cin"})
IsPythonLike(code) == ContainsAny(code, {"def ", "import ", "print(", "if __name__"})

detect_syntax_errors(code) ==
    (IF IsCppLike(code)
     THEN (IF DefineSemicolon(code)
           THEN << Err("Semicolon after #define", 95) >> ELSE <<>>)
          \o (IF MissingSemicolon(code)
              THEN << Err("Possibly missing semicolon", 70) >> ELSE <<>>)
     ELSE IF IsPythonLike(code)
     THEN (IF MissingColon(code)
           THEN << Err("Missing colon after control structure", 90) >> ELSE <<>>)
          \o (IF _check_python_indentation(Split(code)) # <<>>
              THEN << Err("Indentation error", 80) >> ELSE <<>>)
     ELSE <<>>)
    \o (IF _check_bracket_matching(code).kind # None
        THEN << Err("Unmatched brackets/braces", 90) >> ELSE <<>>)
    \o _check_keyword_typos(code)

\* re.search(r'#define\s+int\s+long\s+long', code)
DefineIntLongLong(code) ==
    \E i \in 1..Len(code) :
        Lit(code, Plus(code, Lit(code, Plus(code, Lit(code, Plus(code,
            Lit(code, i, "#define"), WS), "int"), WS), "long"), WS), "long") # 0

\* re.search(r'int\s+main\s*\(', code)
IntMain(code) ==
    \E i \in 1..Len(code) :
        Lit(code, Star(code, Lit(code, Plus(code, Lit(code, i, "int"), WS), "main"), WS), "(") # 0

detect_compilation_errors(code) ==
    IF Contains(code, "#include")
    THEN (IF Contains(code, "vector") /\ ~Contains(code, "#include <vector>")
          THEN << Err("Missing #include <vector>", 85) >> ELSE <<>>)
         \o (IF /\ Contains(code, "sort(")
                /\ ~Contains(code, "#include <algorithm>")
                /\ ~Contains(code, "#include <bits/stdc++.h>")
             THEN << Err("Missing #include <algorithm> for sort()", 85) >> ELSE <<>>)
         \o (IF DefineIntLongLong(code) /\ IntMain(code)
             THEN << Err("Type conflict: #define int long long with int main()", 90) >>
             ELSE <<>>)
    ELSE <<>>

\* re.search(r'for\s*\(\s*int\s+\w+\s*=\s*0\s*;\s*\w+\s*<=?\s*n\s*;', code)
ForLoopToN(code) ==
    \E i \in 1..Len(code) :
        LET p1 == Star(code, Lit(code, Star(code, Lit(code, i, "for"), WS), "("), WS)
            p2 == Star(code, Plus(code, Plus(code, Lit(code, p1, "int"), WS), WordCh), WS)
            p3 == Star(code, Lit(code, Star(code, Lit(code, p2, "="), WS), "0"), WS)
            p4 == Star(code, Plus(code, Star(code, Lit(code, p3, ";"), WS), WordCh), WS)
            p5 == Star(code, Opt(code, Lit(code, p4, "<"), "="), WS)
        IN  Lit(code, Star(code, Lit(code, p5, "n"), WS), ";") # 0

\* re.search(r'mid\s*=\s*\(\s*left\s*\+\s*right\s*\)\s*/\s*2', code)
MidAverage(code) ==
    \E i \in 1..Len(code) :
        LET p1 == Star(code, Lit(code, Star(code, Lit(code, i, "mid"), WS), "="), WS)
            p2 == Star(code, Lit(code, Star(code, Lit(code, p1, "("), WS), "left"), WS)
            p3 == Star(code, Lit(code, Star(code, Lit(code, p2, "+"), WS), "right"), WS)
            p4 == Star(code, Lit(code, Star(code, Lit(code, p3, ")"), WS), "/"), WS)
        IN  Lit(code, p4, "2") # 0

detect_logic_errors(code) ==
    (IF ForLoopToN(code) /\ (Contains(code, "vector<") \/ Contains(code, "array["))
     THEN << Err("Potential array bounds error (using <= n instead of < n)", 75) >>
     ELSE <<>>)
    \o (IF /\ \/ Contains(Lower(code), "binary")
              \/ (Contains(code, "left") /\ Contains(code, "right") /\ Contains(code, "mid"))
           /\ MidAverage(code)
        THEN << Err("Potential integer overflow in mid calculation", 70) >> ELSE <<>>)

\* Mutant of _rule_based_classification: the Sorting rule is tried before the
\* Graph Traversal rule.
RuleBased_SortingBeforeGraph(code) ==
    LET code_lower == Lower(code)
        any(ps) == ContainsAny(code_lower, ps)
    IN  IF any({"binary", "left <= right", "mid =", "while left <= right"}) THEN "Binary Search"
        ELSE IF any({"dp[", "memo", "dynamic", "previous"}) THEN "Dynamic Programming"
        ELSE IF any({"sort", "sorted", "quicksort", "mergesort"}) THEN "Sorting"
        ELSE IF any({"dfs", "bfs", "graph", "visited"}) THEN "Graph Traversal"
        ELSE IF any({"tree", "root", "left", "right", "node"}) THEN "Tree Algorithms"
        ELSE IF any({"backtrack", "recursive"}) THEN "Backtracking"
        ELSE IF any({"greedy", "minimum", "maximum"}) THEN "Greedy Algorithm"
        ELSE IF any({"string", "str", "char", "split"}) THEN "String Processing"
        ELSE IF any({"math", "sqrt", "formula"}) THEN "Mathematics"
        ELSE "General Programming"

\* _rule_based_classification: the first rule of the table one of whose
\* keywords occurs in code.lower()
_rule_based_classification(code) ==
    LET code_lower == Lower(code)
        any(ps) == ContainsAny(code_lower, ps)
    IN  IF any({"binary", "left <= right", "mid =", "while left <= right"}) THEN "Binary Search"
        ELSE IF any({"dp[", "memo", "dynamic", "previous"}) THEN "Dynamic Programming"
        ELSE IF any({"dfs", "bfs", "graph", "visited"}) THEN "Graph Traversal"
        ELSE IF any({"sort", "sorted", "quicksort", "mergesort"}) THEN "Sorting"
        ELSE IF any({"tree", "root", "left", "right", "node"}) THEN "Tree Algorithms"
        ELSE IF any({"backtrack", "recursive"}) THEN "Backtracking"
        ELSE IF any({"greedy", "minimum", "maximum"}) THEN "Greedy Algorithm"
        ELSE IF any({"string", "str", "char", "split"}) THEN "String Processing"
        ELSE IF any({"math", "sqrt", "formula"}) THEN "Mathematics"
        ELSE "General Programming"

(***************************************************************************)
(* EnhancedConceptClassifier.predict_concept and get_detailed_analysis.    *)
(***************************************************************************)
concepts == { "Syntax Error", "Compilation Error", "Logic Error",
              "Binary Search", "Dynamic Programming", "Graph Traversal",
              "Sorting", "Array Manipulation", "String Processing",
              "Tree Algorithms", "Greedy Algorithm", "Backtracking",
              "Mathematics", "General Programming" }

\* self.pipeline is None
NoPipeline == [loaded |-> FALSE, predict_raises |-> FALSE, prediction |-> None,
               proba_raises |-> FALSE, max_probability |-> 0]

\* What a loaded pipeline answers for the code at hand: predict raises or
\* returns a label; predict_proba raises or returns probabilities, of which only
\* the largest is used.
PipelineLabels == {"Sorting", "Array Manipulation"}
Pipelines ==
    { [loaded |-> TRUE, predict_raises |-> TRUE, prediction |-> None,
       proba_raises |-> FALSE, max_probability |-> 0] }
    \cup { [loaded |-> TRUE, predict_raises |-> FALSE, prediction |-> l,
            proba_raises |-> TRUE, max_probability |-> 0] : l \in PipelineLabels }
    \cup { [loaded |-> TRUE, predict_raises |-> FALSE, prediction |-> l,
            proba_raises |-> FALSE, max_probability |-> 95] : l \in PipelineLabels }

\* Mutant of BestError: the first match is taken, whatever its confidence.
BestError_First(errors) == errors[1]

\* max(errors, key=lambda x: x.get('confidence', 0)): the first of the matches
\* with the largest confidence
BestError(errors) ==
    errors[CHOOSE i \in 1..Len(errors) :
              /\ \A j \in 1..Len(errors) : errors[j].confidence <= errors[i].confidence
              /\ \A j \in 1..(i - 1) : errors[j].confidence < errors[i].confidence]

Prediction(concept, confidence) == [concept |-> concept, confidence |-> confidence]

\* Mutant of predict_concept: the compilation detector is consulted before the
\* syntax detector.
PredictConcept_CompilationFirst(code, pipeline) ==
    LET syntax_errors == detect_syntax_errors(code)
        compilation_errors == detect_compilation_errors(code)
        logic_errors == detect_logic_errors(code)
    IN  IF compilation_errors # <<>>
        THEN Prediction("Compilation Error", BestError(compilation_errors).confidence)
        ELSE IF syntax_errors # <<>>
        THEN Prediction("Syntax Error", BestError(syntax_errors).confidence)
        ELSE IF logic_errors # <<>>
        THEN Prediction("Logic Error", BestError(logic_errors).confidence)
        ELSE IF pipeline.loaded /\ ~pipeline.predict_raises
        THEN Prediction(pipeline.prediction,
                        IF pipeline.proba_raises THEN 70 ELSE pipeline.max_probability)
        ELSE Prediction(_rule_based_classification(code), 50)

\* Mutant of predict_concept: the logic detector is consulted before the
\* compilation detector.
PredictConcept_LogicBeforeCompilation(code, pipeline) ==
    LET syntax_errors == detect_syntax_errors(code)
        compilation_errors == detect_compilation_errors(code)
        logic_errors == detect_logic_errors(code)
    IN  IF syntax_errors # <<>>
        THEN Prediction("Syntax Error", BestError(syntax_errors).confidence)
        ELSE IF logic_errors # <<>>
        THEN Prediction("Logic Error", BestError(logic_errors).confidence)
        ELSE IF compilation_errors # <<>>
        THEN Prediction("Compilation Error", BestError(compilation_errors).confidence)
        ELSE IF pipeline.loaded /\ ~pipeline.predict_raises
        THEN Prediction(pipeline.prediction,
                        IF pipeline.proba_raises THEN 70 ELSE pipeline.max_probability)
        ELSE Prediction(_rule_based_classification(code), 50)

predict_concept(code, pipeline) ==
    LET syntax_errors == detect_syntax_errors(code)
        compilation_errors == detect_compilation_errors(code)
        logic_errors == detect_logic_errors(code)
    IN  IF syntax_errors # <<>>
        THEN Prediction("Syntax Error", BestError(syntax_errors).confidence)
        ELSE IF compilation_errors # <<>>
        THEN Prediction("Compilation Error", BestError(compilation_errors).confidence)
        ELSE IF logic_errors # <<>>
        THEN Prediction("Logic Error", BestError(logic_errors).confidence)
        ELSE IF pipeline.loaded
        THEN IF pipeline.predict_raises
             THEN Prediction(_rule_based_classification(code), 50)
             ELSE Prediction(pipeline.prediction,
                             IF pipeline.proba_raises THEN 70 ELSE pipeline.max_probability)
        ELSE Prediction(_rule_based_classification(code), 50)

NoAnalysis == [done |-> FALSE, syntax_errors |-> <<>>, compilation_errors |-> <<>>,
               logic_errors |-> <<>>, concept |-> None, confidence |-> 0]

get_detailed_analysis(code, pipeline) ==
    LET p == predict_concept(code, pipeline)
    IN  [done |-> TRUE,
         syntax_errors |-> detect_syntax_errors(code),
         compilation_errors |-> detect_compilation_errors(code),
         logic_errors |-> detect_logic_errors(code),
         concept |-> p.concept,
         confidence |-> p.confidence]

(***************************************************************************)
(* EnhancedLLMSuggestionEngine.  A call returns or raises: Ok(v) and       *)
(* Raised(e).  A suggestion text is kept as the sequence of its lines.     *)
(***************************************************************************)
Ok(v) == [raised |-> FALSE, exception |-> None, value |-> v]
Raised(e) == [raised |-> TRUE, exception |-> e, value |-> <<>>]

\* llm_utils.py never imports re, yet _get_syntax_error_suggestion,
\* _get_compilation_error_suggestion and _get_logic_error_suggestion call
\* re.search and re.findall: the name lookup raises NameError.
re_imported == FALSE

\* len(code) > 2000
TruncationLimit == 2000
TruncationMarker == "\n... (truncated)"

\* _check_bracket_mismatch: the scan from the bracket at position i with the
\* given stack of openers
RECURSIVE MismatchScan(_, _, _)
MismatchScan(code, i, stack) ==
    IF i > Len(code) THEN Len(stack) > 0
    ELSE LET char == Ch(code, i)
         IN  IF char \in Openers
             THEN MismatchScan(code, NextBracket(code, i + 1), Append(stack, char))
             ELSE IF stack = <<>> THEN TRUE
             ELSE IF pairs[stack[Len(stack)]] # char THEN TRUE
             ELSE MismatchScan(code, NextBracket(code, i + 1), SubSeq(stack, 1, Len(stack) - 1))
_check_bracket_mismatch(code) == MismatchScan(code, NextBracket(code, 1), <<>>)

\* the lines _get_syntax_error_suggestion joins, once re is bound
SyntaxSuggestions(code) ==
    LET found ==
            (IF DefineSemicolon(code)
             THEN << "Critical Error: Remove semicolon after #define",
                     "Fix: Change #define int long long; to #define int long long",
                     "Also: Use signed main() instead of int main() when redefining int" >>
             ELSE <<>>)
         \o (IF ContainsAny(code, {"def ", "if ", "for ", "while "}) /\ MissingColon(code)
             THEN << "Missing Colons: Add ':' after control structures",
                     "Fix: Found lines missing colons" >>
             ELSE <<>>)
         \o (IF _check_bracket_mismatch(code)
             THEN << "Bracket Mismatch: Check for unmatched brackets/braces",
                     "Fix: Count opening and closing brackets carefully" >>
             ELSE <<>>)
    IN  IF found # <<>> THEN found
        ELSE << "Common Syntax Issues to Check:",
                "Missing semicolons at end of statements",
                "Unmatched brackets: (), [], {}",
                "Typos in keywords (return, include, etc.)",
                "Missing colons after if/for/while in Python" >>

\* its first statement is re.search(...)
_get_syntax_error_suggestion(code) ==
    IF ~re_imported THEN Raised("NameError") ELSE Ok(SyntaxSuggestions(code))

GeneralCompilationFixes == << "General Compilation Fixes:",
                              "Check all variable declarations",
                              "Ensure function signatures match calls",
                              "Verify all required headers are included",
                              "Check for type mismatches" >>

\* re.search is reached only inside "if '#include' in code"
_get_compilation_error_suggestion(code) ==
    IF ~Contains(code, "#include")
    THEN Ok(<< "Compilation Error Analysis:" >> \o GeneralCompilationFixes)
    ELSE IF ~re_imported THEN Raised("NameError")
    ELSE Ok(<< "Compilation Error Analysis:" >>
            \o (IF /\ Contains(code, "vector")
                   /\ ~Contains(code, "#include <vector>")
                   /\ ~Contains(code, "#include <bits/stdc++.h>")
                THEN << "Missing Header: Add #include <vector>" >> ELSE <<>>)
            \o (IF /\ Contains(code, "sort(")
                   /\ ~Contains(code, "#include <algorithm>")
                   /\ ~Contains(code, "#include <bits/stdc++.h>")
                THEN << "Missing Header: Add #include <algorithm> for sort()" >> ELSE <<>>)
            \o (IF DefineIntLongLong(code) /\ Contains(code, "int main(")
                THEN << "Type Conflict: #define int long long conflicts with int main()",
                        "Fix: Use signed main() instead of int main()" >>
                ELSE <<>>)
            \o GeneralCompilationFixes)

\* re.search(r'for.*<=.*n', code): "for", then "<=", then "n", on one line
ForLeN(code) ==
    \E i \in 1..Len(code) :
        LET k == Lit(code, i, "for")
            e == Find(code, k, "\n") - 1
        IN  k # 0 /\ \E a \in k..(e - 2) : HasAt(code, "<=", a)
                                          /\ \E b \in (a + 2)..e : Ch(code, b) = "n"

\* its first statement after the list is re.search(...)
_get_logic_error_suggestion(code) ==
    IF ~re_imported THEN Raised("NameError")
    ELSE Ok(<< "Logic Error Analysis:" >>
            \o (IF ForLeN(code)
                THEN << "Array Bounds: Using <= n may cause out-of-bounds access",
                        "Fix: Use < n for 0-indexed arrays" >>
                ELSE <<>>)
            \o (IF Contains(code, "mid = (left + right) / 2")
                THEN << "Integer Overflow: (left + right) / 2 can overflow",
                        "Fix: Use mid = left + (right - left) / 2" >>
                ELSE <<>>)
            \o << "Common Logic Issues:", "Off-by-one errors in loops",
                  "Integer overflow in calculations", "Wrong loop conditions",
                  "Incorrect array indexing" >>)

Reply(suggestion, source, error_type) ==
    [suggestion |-> suggestion, source |-> source, success |-> TRUE, error_type |-> error_type]

\* _enhanced_fallback_suggestion: the dict literal error_suggestions calls the
\* three helpers in order before anything is selected
_enhanced_fallback_suggestion(concept, error, code) ==
    LET syntax == _get_syntax_error_suggestion(code)
        compilation == _get_compilation_error_suggestion(code)
        logic == _get_logic_error_suggestion(code)
        concept_info ==
            IF concept = "Syntax Error"
            THEN [suggestion |-> syntax.value,
                  tip |-> "Always check for missing semicolons, brackets, and typos in keywords!"]
            ELSE IF concept = "Compilation Error"
            THEN [suggestion |-> compilation.value,
                  tip |-> "Make sure all required headers are included and types match!"]
            ELSE IF concept = "Logic Error"
            THEN [suggestion |-> logic.value,
                  tip |-> "Test with small inputs and trace through your algorithm step by step!"]
            ELSE IF concept = "Binary Search"
            THEN [suggestion |-> << "Binary Search Issues:" >>,
                  tip |-> "Always verify your array is sorted before binary search!"]
            ELSE IF concept = "Dynamic Programming"
            THEN [suggestion |-> << "DP Debugging Checklist:" >>,
                  tip |-> "Draw out small examples to verify your DP logic!"]
            ELSE [suggestion |-> << "General Debugging:" >>,
                  tip |-> "Break down complex problems into smaller parts!"]
    IN  IF syntax.raised THEN syntax
        ELSE IF compilation.raised THEN compilation
        ELSE IF logic.raised THEN logic
        ELSE Ok(Reply((IF Strip(error) # "" THEN << "Error Analysis: " \o error, "" >> ELSE <<>>)
                      \o concept_info.suggestion \o << "", concept_info.tip >>,
                      "rule_based_enhanced", concept))

\* What one chain.invoke does: returns a text, raises, or returns something
\* that is not a str.
TextReply(text) == [kind |-> "text", text |-> text]
ServiceReplies == { TextReply("  1. Root Cause ... 4. Prevention \n"), TextReply(""),
                    [kind |-> "raises", text |-> ""], [kind |-> "not_str", text |-> ""] }

\* the code put in the request: lines 77-78
Truncated(code) ==
    IF Len(code) > TruncationLimit
    THEN SubSeq(code, 1, TruncationLimit) \o TruncationMarker
    ELSE code

NoSuggestion == [done |-> FALSE, raised |-> FALSE, exception |-> None,
                 reply |-> Reply(<<>>, None, None),
                 requests |-> <<>>, fallback_codes |-> <<>>]

\* get_suggestion.  The result records, besides what the caller gets (reply, or
\* the exception that escapes), the code of each request sent to the chain and
\* the code argument of each call of _enhanced_fallback_suggestion.
get_suggestion(code, error, concept, chain, service) ==
    LET Finish(r, requests, fallback_codes) ==
            [done |-> TRUE, raised |-> r.raised, exception |-> r.exception,
             reply |-> IF r.raised THEN Reply(<<>>, None, None) ELSE r.value,
             requests |-> requests, fallback_codes |-> fallback_codes]
        \* the local variable code after line 78
        local_code == Truncated(code)
        request == [code |-> local_code,
                    error |-> IF error = "" THEN "No specific error provided" ELSE error,
                    concept |-> concept]
    IN  IF ~chain
        THEN LET first == _enhanced_fallback_suggestion(concept, error, code)
             IN  IF ~first.raised THEN Finish(first, <<>>, << code >>)
                 \* line 74 raised inside the try: the handler of line 99 calls it again
                 ELSE Finish(_enhanced_fallback_suggestion(concept, error, code),
                             <<>>, << code, code >>)
        ELSE IF service.kind = "text"
        THEN Finish(Ok(Reply(<< Strip(service.text) >>, "llm", concept)), << request >>, <<>>)
        \* chain.invoke raised, or suggestion.strip() did: line 101
        ELSE Finish(_enhanced_fallback_suggestion(concept, error, local_code),
                    << request >>, << local_code >>)

(***************************************************************************)
(* CompilerAnalyzer: the parsing of the toolchain's diagnostics.           *)
(***************************************************************************)
compilers == [l \in {"cpp", "c", "python", "java"} |->
                 CASE l = "cpp" -> "g++" [] l = "c" -> "gcc"
                   [] l = "python" -> "python" [] l = "java" -> "javac"]
extensions == [l \in {"cpp", "c", "python", "java"} |->
                 CASE l = "cpp" -> ".cpp" [] l = "c" -> ".c"
                   [] l = "python" -> ".py" [] l = "java" -> ".java"]

\* int(s) for a text of decimal digits
DigitValue(c) == CHOOSE d \in 0..9 : ToString(d) = c
RECURSIVE ParseInt(_)
ParseInt(s) == IF Len(s) = 0 THEN 0
               ELSE 10 * ParseInt(SubSeq(s, 1, Len(s) - 1)) + DigitValue(Ch(s, Len(s)))

Analysis(issue_type, fix, explanation) ==
    [issue_type |-> issue_type, fix |-> fix, explanation |-> explanation]

\* Mutant of _analyze_cpp_error: the missing brace is tried before the missing
\* semicolon.
AnalyzeCppError_BraceFirst(message) ==
    LET message_lower == Lower(message)
    IN  IF Contains(message_lower, "expected '{'")
        THEN Analysis("missing_brace", "Add opening brace after function/control structure",
                      "Function bodies and control structures need braces")
        ELSE IF Contains(message_lower, "expected ';'")
        THEN Analysis("missing_semicolon", "Add semicolon at the end of the statement",
                      "C++ statements must end with semicolons")
        ELSE IF Contains(message_lower, "#define") /\ Contains(message_lower, ";")
        THEN Analysis("define_semicolon", "Remove semicolon from #define statement",
                      "#define is a preprocessor directive, not a C++ statement")
        ELSE Analysis("general", "Check syntax according to error message",
                      "General compilation error")

_analyze_cpp_error(message) ==
    LET message_lower == Lower(message)
    IN  IF Contains(message_lower, "expected ';'")
        THEN Analysis("missing_semicolon", "Add semicolon at the end of the statement",
                      "C++ statements must end with semicolons")
        ELSE IF Contains(message_lower, "expected '{'")
        THEN Analysis("missing_brace", "Add opening brace after function/control structure",
                      "Function bodies and control structures need braces")
        ELSE IF Contains(message_lower, "#define") /\ Contains(message_lower, ";")
        THEN Analysis("define_semicolon", "Remove semicolon from #define statement",
                      "#define is a preprocessor directive, not a C++ statement")
        ELSE Analysis("general", "Check syntax according to error message",
                      "General compilation error")

_analyze_python_error(message) ==
    IF Contains(message, "IndentationError")
    THEN Analysis("indentation", "Fix indentation - use 4 spaces consistently",
                  "Python uses indentation to define code blocks")
    ELSE IF Contains(message, "invalid syntax")
    THEN Analysis("syntax", "Check for missing colons, parentheses, or quotes",
                  "Python syntax error detected")
    ELSE Analysis("general", "Check Python syntax", "General Python error")

\* The tail ':(\d+):(\d+):\s*(error|warning):' of the gcc pattern matched at
\* position p of line (p holds the first ':'): the positions of its parts, with
\* ok FALSE when it does not match there.
GccTail(line, p) ==
    LET l1 == Lit(line, p, ":")
        l2 == Plus(line, l1, Digit)
        c1 == Lit(line, l2, ":")
        c2 == Plus(line, c1, Digit)
        s1 == Star(line, Lit(line, c2, ":"), WS)
        kind == IF HasAt(line, "error", s1) THEN "error"
                ELSE IF HasAt(line, "warning", s1) THEN "warning" ELSE None
        rest == Lit(line, Lit(line, s1, kind), ":")
    IN  [ok |-> s1 # 0 /\ kind # None /\ rest # 0 /\ rest <= Len(line),
         line_from |-> l1, line_to |-> l2 - 1, column_from |-> c1, column_to |-> c2 - 1,
         type |-> kind, rest |-> rest]

\* re.match(r'(.+):(\d+):(\d+):\s*(error|warning):\s*(.+)', line): the greedy
\* (.+) ends at the last position where the rest of the pattern matches
GccMatch(line) ==
    LET ps == { p \in 2..Len(line) : GccTail(line, p).ok }
    IN  IF ps = {} THEN [ok |-> FALSE]
        ELSE GccTail(line, CHOOSE p \in ps : \A q \in ps : q <= p)

\* Mutant of GccIssue: the column is read from the group of the line number.
GccIssue_ColumnFromLineGroup(line, match, message) ==
    [line |-> ParseInt(SubSeq(line, match.line_from, match.line_to)),
     column |-> ParseInt(SubSeq(line, match.line_from, match.line_to)),
     type |-> match.type,
     message |-> message,
     confidence |-> 95,
     source |-> "compiler",
     analysis |-> _analyze_cpp_error(message)]

\* lines 127-139: the issue of a line the pattern matched
GccIssue(line, match, message) ==
    [line |-> ParseInt(SubSeq(line, match.line_from, match.line_to)),
     column |-> ParseInt(SubSeq(line, match.column_from, match.column_to)),
     type |-> match.type,
     message |-> message,
     confidence |-> 95,
     source |-> "compiler",
     analysis |-> _analyze_cpp_error(message)]

GccMatched(line, match) ==
    IF match.ok THEN << GccIssue(line, match, Strip(SubSeq(line, match.rest, Len(line)))) >>
    ELSE <<>>

GccLineIssues(line) == IF Strip(line) # "" THEN GccMatched(line, GccMatch(line)) ELSE <<>>

RECURSIVE GccIssuesFrom(_, _)
GccIssuesFrom(lines, i) ==
    IF i > Len(lines) THEN <<>>
    ELSE GccLineIssues(lines[i]) \o GccIssuesFrom(lines, i + 1)
_parse_gcc_errors(stderr) == GccIssuesFrom(Split(stderr), 1)

\* re.search(r'line (\d+)', text): the number of the first "line <digits>" of
\* text, 0 when there is none
LineNumberIn(text) ==
    LET ps == { p \in 1..Len(text) : Plus(text, Lit(text, p, "line "), Digit) # 0 }
    IN  IF ps = {} THEN 0
        ELSE LET p == CHOOSE q \in ps : \A r \in ps : q <= r
             IN  ParseInt(SubSeq(text, p + 5, Plus(text, p + 5, Digit) - 1))

HasLineNumber(text) ==
    Contains(text, "line") /\ \E p \in 1..Len(text) : Plus(text, Lit(text, p, "line "), Digit) # 0

\* lines 151-157: the number the lines of range(max(0, i-3), i) give, 0 when
\* none gives one
LineNumberBefore(lines, i, back) ==
    IF back = {} THEN 0
    ELSE LineNumberIn(lines[CHOOSE j \in back : \A k \in back : j <= k])

PythonIssue(line, line_num) ==
    [line |-> IF line_num = 0 THEN 1 ELSE line_num,
     column |-> 1,
     type |-> "error",
     message |-> Strip(line),
     confidence |-> 90,
     source |-> "compiler",
     analysis |-> _analyze_python_error(line)]

PythonLineIssues(lines, i) ==
    IF Contains(lines[i], "SyntaxError") \/ Contains(lines[i], "IndentationError")
    THEN << PythonIssue(lines[i],
                LineNumberBefore(lines, i,
                    { j \in 1..(i - 1) : j >= i - 3 /\ HasLineNumber(lines[j]) })) >>
    ELSE <<>>

RECURSIVE PythonIssuesFrom(_, _)
PythonIssuesFrom(lines, i) ==
    IF i > Len(lines) THEN <<>>
    ELSE PythonLineIssues(lines, i) \o PythonIssuesFrom(lines, i + 1)
_parse_python_errors(stderr) == PythonIssuesFrom(Split(stderr), 1)

\* str(e) of the AttributeError of a method CompilerAnalyzer does not define
AttributeError(name) == "'CompilerAnalyzer' object has no attribute '" \o name \o "'"

\* _extract_issues; CompilerAnalyzer defines no _parse_java_errors, so the
\* attribute lookup of line 110 raises AttributeError
_extract_issues(stderr, language) ==
    IF language \in {"cpp", "c"} THEN Ok(_parse_gcc_errors(stderr))
    ELSE IF language = "python" THEN Ok(_parse_python_errors(stderr))
    ELSE IF language = "java" THEN Raised(AttributeError("_parse_java_errors"))
    ELSE Ok(<<>>)

\* _generate_exact_fixes (code_suggestion None: the key is absent)
ExactFix(issue, analysis) ==
    [line |-> issue.line,
     issue_type |-> analysis.issue_type,
     original_error |-> issue.message,
     fix_description |-> analysis.fix,
     explanation |-> analysis.explanation,
     confidence |-> issue.confidence,
     code_suggestion |->
         IF analysis.issue_type = "missing_semicolon"
         THEN "Add ';' at the end of line " \o ToString(issue.line)
         ELSE IF analysis.issue_type = "define_semicolon"
         THEN "Remove ';' from #define on line " \o ToString(issue.line)
         ELSE None]

_generate_exact_fixes(issues) ==
    [i \in 1..Len(issues) |-> ExactFix(issues[i], issues[i].analysis)]

\* subprocess.CompletedProcess
Completed(returncode, stderr) == [returncode |-> returncode, stdout |-> "", stderr |-> stderr]

\* lines 88-99 (primary_issue: <<>> stands for None, << issue >> for the issue)
ParsedOutput(result, issues) ==
    Ok([success |-> TRUE,
        compilation_successful |-> result.returncode = 0,
        issues |-> issues,
        exact_fixes |-> _generate_exact_fixes(issues),
        raw_stderr |-> result.stderr,
        raw_stdout |-> result.stdout,
        primary_issue |-> IF issues # <<>> THEN << issues[1] >> ELSE <<>>])

\* lines 83-86, then 88-99 unless _extract_issues raised
Extracted(result, extracted) ==
    IF extracted.raised THEN extracted ELSE ParsedOutput(result, extracted.value)

\* Mutant of _parse_compiler_output: the diagnostics are parsed whatever the
\* exit status.
ParseCompilerOutput_AnyStatus(result, language) ==
    Extracted(result, IF result.stderr # ""
                      THEN _extract_issues(result.stderr, language) ELSE Ok(<<>>))

_parse_compiler_output(result, language) ==
    Extracted(result, IF result.returncode # 0 /\ result.stderr # ""
                      THEN _extract_issues(result.stderr, language) ELSE Ok(<<>>))

\* the dict analyze_code returns when it fails
Failure(error) == [success |-> FALSE, error |-> error, issues |-> <<>>]

\* str(list of str)
RECURSIVE ListItems(_, _)
ListItems(items, i) ==
    IF i > Len(items) THEN ""
    ELSE (IF i > 1 THEN ", " ELSE "") \o "'" \o items[i] \o "'" \o ListItems(items, i + 1)
ListStr(items) == "[" \o ListItems(items, 1) \o "]"

CompileTimeout == 10
OutputPath == "/tmp/output"

\* the command line of _compile_code
Cmd(filepath, language) ==
    CASE language = "cpp" ->
           << compilers[language], "-Wall", "-Wextra", "-std=c++17", filepath, "-o", OutputPath >>
      [] language = "c" ->
           << compilers[language], "-Wall", "-Wextra", filepath, "-o", OutputPath >>
      [] language = "python" -> << "python", "-m", "py_compile", filepath >>
      [] language = "java" -> << "javac", filepath >>

\* str(e) of what subprocess.run raises
TimeoutExpired(cmd) ==
    "Command '" \o ListStr(cmd) \o "' timed out after " \o ToString(CompileTimeout) \o " seconds"
FileNotFoundError(path) == "[Errno 2] No such file or directory: '" \o path \o "'"

\* What the toolchain does with one command: it cannot be started, it outlives
\* the timeout, or it exits with a status and diagnostics.
\* (NotStarted: a call that has not got to its toolchain)
NotStarted == [kind |-> "none", returncode |-> 0, stderr |-> ""]
NotFound == [kind |-> "not_found", returncode |-> 0, stderr |-> ""]
TimedOut == [kind |-> "timeout", returncode |-> 0, stderr |-> ""]
Exited(returncode, stderr) == [kind |-> "exited", returncode |-> returncode, stderr |-> stderr]

\* Mutant of _compile_code: a toolchain that outlives the timeout is taken to
\* have exited with status 1 and no diagnostics.
CompileCode_TimeoutAsExit(filepath, language, outcome) ==
    CASE outcome.kind = "not_found" -> Raised(FileNotFoundError(Cmd(filepath, language)[1]))
      [] outcome.kind = "timeout" -> Ok(Completed(1, ""))
      [] outcome.kind = "exited" -> Ok(Completed(outcome.returncode, outcome.stderr))

\* _compile_code on a toolchain that behaves as outcome
_compile_code(filepath, language, outcome) ==
    CASE outcome.kind = "not_found" -> Raised(FileNotFoundError(Cmd(filepath, language)[1]))
      [] outcome.kind = "timeout" -> Raised(TimeoutExpired(Cmd(filepath, language)))
      [] outcome.kind = "exited" -> Ok(Completed(outcome.returncode, outcome.stderr))

\* lines 49-55
Caught(r) == IF r.raised THEN Failure("Analysis failed: " \o r.exception) ELSE r.value

\* line 42, unless _compile_code raised
AfterCompile(language, compile_result) ==
    IF compile_result.raised THEN compile_result
    ELSE _parse_compiler_output(compile_result.value, language)

\* The dict analyze_code returns for a call whose scratch file is temp_file
analyze_code(temp_file, language, outcome) ==
    IF language \notin DOMAIN compilers
    THEN Failure("Unsupported language: " \o language)
    ELSE Caught(AfterCompile(language, _compile_code(temp_file, language, outcome)))

(***************************************************************************)
(* The route POST /api/analyze.  The two methods it calls,                 *)
(* classifier.predict_concept_with_compiler and                            *)
(* llm_engine.get_suggestion_with_compiler, and the submission log it      *)
(* saves to (db, CodeSubmission) are not in the classes at hand; they are  *)
(* taken from the design: toolchain, then detectors and classifier, then   *)
(* the suggestion engine, the result handed to the caller's log.           *)
(***************************************************************************)
CodeCeiling == 10000

NoRequest == [is_json |-> FALSE, code |-> "", error |-> "", language |-> None]
\* ran: the steps of the pipeline the handler has run for the request
NoResponse == [done |-> FALSE, status |-> 0, body |-> <<>>, saved |-> <<>>, ran |-> {}]

\* the scratch file of the one analyze_code call of a request
RequestTempFile(language) == "/tmp/tmp1" \o extensions[language]

\* what the route reads of compiler_data (lines 72-74, 79-80)
CompilerData(result) ==
    IF result.success
    THEN [compilation_successful |-> result.compilation_successful,
          compiler_issues |-> result.issues,
          exact_fixes |-> result.exact_fixes]
    ELSE [compilation_successful |-> FALSE, compiler_issues |-> <<>>, exact_fixes |-> <<>>]

UnsupportedLanguageError(language) == "Unsupported language: " \o language

\* a call's result together with the steps of the pipeline it has run
Ran(r, steps) ==
    [raised |-> r.raised, exception |-> r.exception, value |-> r.value, ran |-> steps]

\* Mutant of predict_concept_with_compiler: the language is not looked at, the
\* failure outcome analyze_code returns for it is taken as compiler data.
PredictWithCompiler_NoLanguageCheck(code, language, pipeline_, outcome) ==
    Ran(Ok([prediction |-> predict_concept(code, pipeline_),
            compiler_data |->
                CompilerData(analyze_code(IF language \in DOMAIN extensions
                                          THEN RequestTempFile(language) ELSE None,
                                          language, outcome))]),
        {"toolchain", "detectors", "classifier"})

\* concept, confidence, compiler_data
predict_concept_with_compiler(code, language, pipeline_, outcome) ==
    IF language \notin DOMAIN compilers
    THEN Ran(Raised(UnsupportedLanguageError(language)), {})
    ELSE Ran(Ok([prediction |-> predict_concept(code, pipeline_),
                 compiler_data |->
                     CompilerData(analyze_code(RequestTempFile(language), language,
                                               outcome))]),
             {"toolchain", "detectors", "classifier"})

Returned(suggestion_) ==
    IF suggestion_.raised THEN Raised(suggestion_.exception) ELSE Ok(suggestion_.reply)

get_suggestion_with_compiler(code, error, concept, language, compiler_data, chain_, service) ==
    Returned(get_suggestion(code, error, concept, chain_, service))

\* lines 22-23, 30-31, 33-34
Rejection(message) ==
    [done |-> TRUE, status |-> 400, body |-> [error |-> message], saved |-> <<>>,
     ran |-> {}]

\* lines 86-91 (details is str(e) in debug mode only)
ServerError(e, ran) ==
    [done |-> TRUE, status |-> 500,
     body |-> [error |-> "An error occurred while analyzing your code"], saved |-> <<>>,
     ran |-> ran]

\* lines 52-62: the row handed to the submission log
Submission(code, error, prediction, suggestion_result) ==
    [code |-> code, error |-> error, concept |-> prediction.concept,
     suggestion |-> suggestion_result.suggestion,
     confidence_score |-> prediction.confidence]

\* lines 49-84 (confidences are kept in hundredths, which round(x, 2) leaves
\* as they are)
Answer(code, error, prediction, compiler_data, suggestion_result, ran) ==
    [done |-> TRUE, status |-> 200,
     body |-> [concept |-> prediction.concept,
               confidence |-> prediction.confidence,
               suggestion |-> suggestion_result.suggestion,
               analysis_source |-> suggestion_result.source,
               compilation_successful |-> compiler_data.compilation_successful,
               compiler_issues |-> Len(compiler_data.compiler_issues),
               exact_fixes_available |-> Len(compiler_data.exact_fixes) > 0,
               exact_fixes |-> compiler_data.exact_fixes],
     saved |-> << Submission(code, error, prediction, suggestion_result) >>,
     ran |-> ran]

\* lines 49-84, unless get_suggestion_with_compiler raised (lines 86-91)
Suggested(code, error, classified, suggestion_result, ran) ==
    IF suggestion_result.raised THEN ServerError(suggestion_result.exception, ran)
    ELSE Answer(code, error, classified.prediction, classified.compiler_data,
                suggestion_result.value, ran \cup {"persistence"})

\* lines 40-84, unless predict_concept_with_compiler raised (lines 86-91)
Classified(code, error, language, chain_, service, classified) ==
    IF classified.raised THEN ServerError(classified.exception, classified.ran)
    ELSE Suggested(code, error, classified.value,
             get_suggestion_with_compiler(code, error, classified.value.prediction.concept,
                 language, classified.value.compiler_data, chain_, service),
             classified.ran \cup {"suggestion"})

\* lines 37-91
Analyzed(code, error, language, pipeline_, chain_, outcome, service) ==
    Classified(code, error, language, chain_, service,
               predict_concept_with_compiler(code, language, pipeline_, outcome))

\* Mutant of Validated: a code of exactly CodeCeiling characters is too long.
Validated_CeilingExclusive(code, error, language, pipeline_, chain_, outcome, service) ==
    IF code = "" THEN Rejection("Code is required")
    ELSE IF Len(code) >= CodeCeiling THEN Rejection("Code too long (max 10000 characters)")
    ELSE Analyzed(code, error, language, pipeline_, chain_, outcome, service)

\* lines 26-35
Validated(code, error, language, pipeline_, chain_, outcome, service) ==
    IF code = "" THEN Rejection("Code is required")
    ELSE IF Len(code) > CodeCeiling THEN Rejection("Code too long (max 10000 characters)")
    ELSE Analyzed(code, error, language, pipeline_, chain_, outcome, service)

\* data.get('language', 'cpp').lower()
LanguageOf(request_) == IF request_.language = None THEN "cpp" ELSE Lower(request_.language)

\* the route: lines 16-91
analyze_route(request_, pipeline_, chain_, outcome, service) ==
    IF ~request_.is_json THEN Rejection("Request must be JSON")
    ELSE Validated(Strip(request_.code), Strip(request_.error), LanguageOf(request_),
                   pipeline_, chain_, outcome, service)

(***************************************************************************)
(* The codes the classifier is run on: one to MaxLines lines of a          *)
(* vocabulary, joined by newlines.  DetectorLines trigger the heuristic    *)
(* detectors (alone or together), TopicLines the keyword rules.            *)
(***************************************************************************)
DetectorLines == <<
    "#include <iostream>",
    "#include <cstdint>",
    "#define int long long;",
    "vector<int> v;",
    "for (int i = 0; i <= n; i++) { vector<int> w(i); }",
    "mid = (left + right) / 2;",
    "def f(x):",
    "reutrn x;",
    "(a, [b)]",
    "sort(v.begin(), v.end());" >>

TopicLines == <<
    "Binary",
    "dp[i] = memo",
    "graph",
    "sort(v.begin(), v.end());",
    "tree",
    "backtrack",
    "greedy",
    "char c;",
    "sqrt(2)" >>

RECURSIVE Join(_)
Join(ls) == IF Len(ls) = 1 THEN ls[1] ELSE ls[1] \o "\n" \o Join(Tail(ls))

Texts(vocabulary) ==
    { Join([i \in DOMAIN ix |-> vocabulary[ix[i]]]) :
        ix \in UNION { [1..n -> DOMAIN vocabulary] : n \in 1..MaxLines } }

Codes == Texts(DetectorLines) \cup Texts(TopicLines)

\* a text of n characters that starts with prefix
RECURSIVE Repeat(_, _)
Repeat(c, n) == IF n = 0 THEN ""
                ELSE LET h == Repeat(c, n \div 2)
                     IN  IF n % 2 = 0 THEN h \o h ELSE h \o h \o c
PadTo(prefix, n) == prefix \o Repeat("a", n - Len(prefix))

\* The codes the suggestion engine is called with: short ones, and codes whose
\* length is around the truncation limit, up to MaxExcess characters over it.
SuggestionCodes ==
    { "x = 1", "#define int long long;", "(a, [b)]" }
    \cup { PadTo("int x = (", TruncationLimit + d) : d \in (0 - 1)..MaxExcess }
SuggestionErrors == { "", "segmentation fault" }
SuggestionConcepts == { "Syntax Error", "Compilation Error", "Logic Error",
                        "Binary Search", "General Programming" }

(***************************************************************************)
(* State.                                                                  *)
(***************************************************************************)
VARIABLES
    code,       \* the code given to the classifier
    pipeline,   \* classifier.pipeline: NoPipeline, or the loaded model's answer
    analysis,   \* what get_detailed_analysis returned (done: it has returned)
    chain,      \* llm_engine.chain is not None
    call,       \* the arguments of the get_suggestion call: code, error, concept
    suggestion, \* what get_suggestion did (done: it has returned or raised)
    files,      \* the files of /tmp: path and the analyze_code call that wrote it
    calls,      \* the analyze_code calls in progress, each with its position
    interference, \* every write or unlink of a file another call wrote
    request,    \* the POST /api/analyze request: is_json, code, error, language
    response,   \* what the route answered: status and body
    submissions, \* the rows saved to the submission log
    scanned,    \* a text handed to the bracket scan
    scan,       \* what the scan reported for it
    output,     \* what a toolchain left: language, exit status, diagnostic text
    parse       \* what the diagnostic parsers made of it

classifierVars == << code, pipeline, analysis >>
engineVars == << chain, call, suggestion >>
compilerVars == << files, calls, interference >>
routeVars == << request, response, submissions >>
scanVars == << scanned, scan >>
parserVars == << output, parse >>
vars == << code, pipeline, analysis, chain, call, suggestion, files, calls, interference,
           request, response, submissions, scanned, scan, output, parse >>
\* what the operations of one component leave alone
notClassifierVars == << engineVars, compilerVars, routeVars, scanVars, parserVars >>
notEngineVars == << classifierVars, compilerVars, routeVars, scanVars, parserVars >>
notCompilerVars == << classifierVars, engineVars, routeVars, scanVars, parserVars >>
notRouteVars == << classifierVars, engineVars, compilerVars, scanVars, parserVars >>
notScanVars == << classifierVars, engineVars, compilerVars, routeVars, parserVars >>
notParserVars == << classifierVars, engineVars, compilerVars, routeVars, scanVars >>

ClassifierIdle == code = "" /\ pipeline = NoPipeline /\ analysis = NoAnalysis
EngineIdle == /\ chain = FALSE
              /\ call = [code |-> "", error |-> "", concept |-> None]
              /\ suggestion = NoSuggestion
CompilerIdle == files = {} /\ calls = <<>> /\ interference = {}
RouteIdle == request = NoRequest /\ response = NoResponse /\ submissions = <<>>
NoScan == [done |-> FALSE, report |-> NoReport, syntax_errors |-> <<>>, concept |-> None,
           mismatch |-> FALSE, template |-> Ok(Reply(<<>>, None, None))]
ScanIdle == scanned = "" /\ scan = NoScan
NoOutput == [language |-> None, returncode |-> 0, stderr |-> ""]
NoParse == [done |-> FALSE, extracted |-> Ok(<<>>), result |-> Ok(<<>>)]
ParserIdle == output = NoOutput /\ parse = NoParse

(***************************************************************************)
(* The classifier on its own.                                              *)
(***************************************************************************)
ClassifyInit ==
    /\ code \in Codes
    /\ pipeline \in {NoPipeline} \cup Pipelines
    /\ analysis = NoAnalysis
    /\ EngineIdle
    /\ CompilerIdle
    /\ RouteIdle
    /\ ScanIdle
    /\ ParserIdle

GetDetailedAnalysis ==
    /\ ~analysis.done
    /\ analysis' = get_detailed_analysis(code, pipeline)
    /\ UNCHANGED << code, pipeline >>
    /\ UNCHANGED notClassifierVars

ClassifyNext == GetDetailedAnalysis

SpecClassify == ClassifyInit /\ [][ClassifyNext]_vars

(***************************************************************************)
(* The suggestion engine on its own: one get_suggestion call.              *)
(***************************************************************************)
SuggestInit ==
    /\ ClassifierIdle
    /\ chain \in BOOLEAN
    /\ call \in [code : SuggestionCodes, error : SuggestionErrors,
                 concept : SuggestionConcepts]
    /\ suggestion = NoSuggestion
    /\ CompilerIdle
    /\ RouteIdle
    /\ ScanIdle
    /\ ParserIdle

GetSuggestion ==
    /\ ~suggestion.done
    /\ \E service \in ServiceReplies :
          suggestion' = get_suggestion(call.code, call.error, call.concept, chain, service)
    /\ UNCHANGED << chain, call >>
    /\ UNCHANGED notEngineVars

SuggestNext == GetSuggestion

SpecSuggest == SuggestInit /\ [][SuggestNext]_vars

(***************************************************************************)
(* CompilerAnalyzer.analyze_code, NumCalls calls of it running at once (the *)
(* module's one compiler_analyzer serves every request thread).  A call    *)
(* takes its steps in program order; between two of its steps the other    *)
(* calls may take theirs.                                                  *)
(***************************************************************************)
Calls == 1..NumCalls

CallLanguages == {"cpp", "c", "python", "java", "ruby"}

\* what the toolchains print
Diagnostics(language) ==
    CASE language \in {"cpp", "c"} ->
           { "t.cpp:2:9: warning: unused variable 'x'\nt.cpp:3:5: error: expected ';' before 'return'" }
      [] language = "python" ->
           { "  File \"t.py\", line 3\nSyntaxError: invalid syntax" }
      [] language = "java" -> { "T.java:1: error: ';' expected" }
      [] OTHER -> {}

Exits(language) ==
    { Exited(rc, stderr) : rc \in {0, 1}, stderr \in {""} \cup Diagnostics(language) }

Exists(path) == \E f \in files : f.path = path
Writer(path) == (CHOOSE f \in files : f.path = path).writer
Written(path, c) == { f \in files : f.path # path } \cup { [path |-> path, writer |-> c] }
Unlinked(path) == { f \in files : f.path # path }

\* tempfile gives a name no file has, and none had: /tmp/tmp<n><suffix>
TempFile(n, language) == "/tmp/tmp" \o ToString(n) \o extensions[language]

\* what a call has not got yet
Pending == [pending |-> TRUE]

NewCall(language) ==
    [pc |-> "called", language |-> language, temp_file |-> None, invocations |-> 0,
     outcome |-> NotStarted, compile_result |-> Pending, parsed_result |-> Pending,
     result |-> Pending, written |-> {}, warnings |-> <<>>]

\* a write or an unlink by call c of a file whose content is another call's
Touch(c, op, path) ==
    IF Exists(path) /\ Writer(path) # c
    THEN interference \cup { [by |-> c, op |-> op, path |-> path, of |-> Writer(path)] }
    ELSE interference

CompilerInit ==
    /\ ClassifierIdle
    /\ EngineIdle
    /\ files = {}
    /\ calls \in [Calls -> { NewCall(l) : l \in CallLanguages }]
    /\ interference = {}
    /\ RouteIdle
    /\ ScanIdle
    /\ ParserIdle

\* Mutant of CheckLanguage: the scratch file is made before the language is
\* looked up.
CheckLanguage_TempFileFirst(c) ==
    /\ calls[c].pc = "called"
    /\ files' = Written("/tmp/tmp" \o ToString(c), c)
    /\ calls' = [calls EXCEPT ![c] =
          IF @.language \notin DOMAIN compilers
          THEN [@ EXCEPT !.pc = "returned",
                         !.written = @ \cup {"/tmp/tmp" \o ToString(c)},
                         !.result = Failure("Unsupported language: " \o calls[c].language)]
          ELSE [@ EXCEPT !.pc = "create"]]
    /\ UNCHANGED interference
    /\ UNCHANGED notCompilerVars

\* lines 27-32
CheckLanguage(c) ==
    /\ calls[c].pc = "called"
    /\ calls' = [calls EXCEPT ![c] =
          IF @.language \notin DOMAIN compilers
          THEN [@ EXCEPT !.pc = "returned",
                         !.result = Failure("Unsupported language: " \o calls[c].language)]
          ELSE [@ EXCEPT !.pc = "create"]]
    /\ UNCHANGED << files, interference >>
    /\ UNCHANGED notCompilerVars

\* line 36: _create_temp_file
CreateTempFile(c) ==
    /\ calls[c].pc = "create"
    /\ \E n \in Calls :
          LET name == TempFile(n, calls[c].language)
          IN  /\ \A d \in Calls : calls[d].temp_file # name
              /\ files' = Written(name, c)
              /\ calls' = [calls EXCEPT ![c] =
                    [@ EXCEPT !.pc = "compile", !.temp_file = name,
                              !.written = @ \cup {name}]]
    /\ UNCHANGED interference
    /\ UNCHANGED notCompilerVars

\* lines 49-55: the call returns the failure
Failed(this, raised) ==
    [this EXCEPT !.pc = "returned", !.result = Caught(raised)]

\* line 39: subprocess.run starts the toolchain, or finds no such program
StartCompiler(c) ==
    /\ calls[c].pc = "compile"
    /\ \/ calls' = [calls EXCEPT ![c] =
             [@ EXCEPT !.pc = "running", !.invocations = @ + 1]]
       \/ calls' = [calls EXCEPT ![c] =
             [Failed(@, _compile_code(@.temp_file, @.language, NotFound))
                 EXCEPT !.outcome = NotFound]]
    /\ UNCHANGED << files, interference >>
    /\ UNCHANGED notCompilerVars

\* gcc and g++ write their -o file when they exit with status 0
Artifact(language, outcome) ==
    outcome.kind = "exited" /\ outcome.returncode = 0 /\ language \in {"cpp", "c"}

Compiled(this, compile_result, artifact) ==
    IF compile_result.raised THEN Failed(this, compile_result)
    ELSE [this EXCEPT !.pc = "parse",
                      !.compile_result = compile_result.value,
                      !.written = IF artifact THEN @ \cup {OutputPath} ELSE @]

\* line 39: the toolchain exits, or the timeout ends it
FinishCompiler(c) ==
    /\ calls[c].pc = "running"
    /\ \E outcome \in {TimedOut} \cup Exits(calls[c].language) :
          /\ calls' = [calls EXCEPT ![c] =
                [Compiled(@, _compile_code(@.temp_file, @.language, outcome),
                          Artifact(@.language, outcome))
                    EXCEPT !.outcome = outcome]]
          /\ files' = IF Artifact(calls[c].language, outcome)
                      THEN Written(OutputPath, c) ELSE files
          /\ interference' = IF Artifact(calls[c].language, outcome)
                             THEN Touch(c, "write", OutputPath) ELSE interference
    /\ UNCHANGED notCompilerVars

Parsed(this, parsed_result) ==
    IF parsed_result.raised THEN Failed(this, parsed_result)
    ELSE [this EXCEPT !.pc = "cleanup", !.parsed_result = parsed_result.value]

\* line 42: _parse_compiler_output
ParseCompilerOutput(c) ==
    /\ calls[c].pc = "parse"
    /\ calls' = [calls EXCEPT ![c] =
          Parsed(@, _parse_compiler_output(@.compile_result, @.language))]
    /\ UNCHANGED << files, interference >>
    /\ UNCHANGED notCompilerVars

\* lines 251-252 of _cleanup_temp_file
CleanupTempFile(c) ==
    /\ calls[c].pc = "cleanup"
    /\ files' = IF Exists(calls[c].temp_file) THEN Unlinked(calls[c].temp_file) ELSE files
    /\ interference' = IF Exists(calls[c].temp_file)
                       THEN Touch(c, "unlink", calls[c].temp_file) ELSE interference
    /\ calls' = [calls EXCEPT ![c] = [@ EXCEPT !.pc = "cleanup_output"]]
    /\ UNCHANGED notCompilerVars

\* line 255: the test of os.path.exists("/tmp/output"); line 47 when it fails
CheckOutput(c) ==
    /\ calls[c].pc = "cleanup_output"
    /\ calls' = [calls EXCEPT ![c] =
          IF @.language \in {"cpp", "c"} /\ Exists(OutputPath)
          THEN [@ EXCEPT !.pc = "unlink_output"]
          ELSE [@ EXCEPT !.pc = "returned", !.result = calls[c].parsed_result]]
    /\ UNCHANGED << files, interference >>
    /\ UNCHANGED notCompilerVars

\* line 256: os.unlink("/tmp/output"), whose FileNotFoundError lines 257-258
\* log; then line 47
UnlinkOutput(c) ==
    /\ calls[c].pc = "unlink_output"
    /\ files' = Unlinked(OutputPath)
    /\ interference' = Touch(c, "unlink", OutputPath)
    /\ calls' = [calls EXCEPT ![c] =
          [@ EXCEPT !.pc = "returned", !.result = calls[c].parsed_result,
                    !.warnings = IF Exists(OutputPath) THEN @
                                 ELSE Append(@, "Failed to cleanup temp files: "
                                                   \o FileNotFoundError(OutputPath))]]
    /\ UNCHANGED notCompilerVars

CompilerNext ==
    \E c \in Calls :
       \/ CheckLanguage(c)
       \/ CreateTempFile(c)
       \/ StartCompiler(c)
       \/ FinishCompiler(c)
       \/ ParseCompilerOutput(c)
       \/ CleanupTempFile(c)
       \/ CheckOutput(c)
       \/ UnlinkOutput(c)

SpecCompiler == CompilerInit /\ [][CompilerNext]_vars

(***************************************************************************)
(* One call of analyze_code running alone: the other calls are never made. *)
(* subprocess.run comes back sooner or later: when the toolchain exits or, *)
(* at the latest, when its timeout ends it.                                *)
(***************************************************************************)
NoCall == [NewCall(None) EXCEPT !.pc = "absent"]

AnalyzeInit ==
    /\ ClassifierIdle
    /\ EngineIdle
    /\ files = {}
    /\ calls \in { [c \in Calls |-> IF c = 1 THEN NewCall(l) ELSE NoCall] :
                      l \in CallLanguages }
    /\ interference = {}
    /\ RouteIdle
    /\ ScanIdle
    /\ ParserIdle

SpecAnalyze == AnalyzeInit /\ [][CompilerNext]_vars

\* where each call is: every step of analyze_code moves its call on
Positions == [c \in Calls |-> calls[c].pc]

SpecAnalyzeFair ==
    AnalyzeInit /\ [][CompilerNext]_vars /\ \A c \in Calls : WF_Positions(FinishCompiler(c))

(***************************************************************************)
(* One request to the route.                                               *)
(***************************************************************************)
RouteCodes ==
    { "", "  \n", "  x = 1\n", "#define int long long;", "int mid = (left + right) / 2;",
      "graph" }
RouteErrors == { "", " segmentation fault\n" }
RouteLanguages == { None, "cpp", "Python", "java", "ruby" }
Requests == [is_json : BOOLEAN, code : RouteCodes, error : RouteErrors,
             language : RouteLanguages]
\* requests whose code is as long as the ceiling allows, and up to MaxExcess
\* characters longer, as it is and with a newline after it
LongRequests ==
    { [is_json |-> TRUE, code |-> PadTo("x = 1;", CodeCeiling + d) \o end, error |-> "",
       language |-> "cpp"] : d \in 0..MaxExcess, end \in {"", "\n"} }
RoutePipelines ==
    { NoPipeline,
      [loaded |-> TRUE, predict_raises |-> FALSE, prediction |-> "Sorting",
       proba_raises |-> FALSE, max_probability |-> 95] }

\* what the toolchain may do with the request's code
Outcomes(language) ==
    IF language \in DOMAIN compilers THEN {NotFound, TimedOut} \cup Exits(language)
    ELSE {NotFound}

\* what the generative service may answer, when there is one to ask
Services(chain_) == IF chain_ THEN ServiceReplies ELSE { TextReply("") }

RouteInit ==
    /\ code = ""
    /\ analysis = NoAnalysis
    /\ call = [code |-> "", error |-> "", concept |-> None]
    /\ suggestion = NoSuggestion
    /\ CompilerIdle
    /\ \/ request \in Requests /\ pipeline \in RoutePipelines /\ chain \in BOOLEAN
       \/ request \in LongRequests /\ pipeline = NoPipeline /\ chain = FALSE
    /\ response = NoResponse
    /\ submissions = <<>>
    /\ ScanIdle
    /\ ParserIdle

AnalyzeCode ==
    /\ ~response.done
    /\ \E service \in Services(chain), outcome \in Outcomes(LanguageOf(request)) :
          response' = analyze_route(request, pipeline, chain, outcome, service)
    /\ submissions' = submissions \o response'.saved
    /\ UNCHANGED request
    /\ UNCHANGED notRouteVars

RouteNext == AnalyzeCode

SpecRoute == RouteInit /\ [][RouteNext]_vars

(***************************************************************************)
(* The bracket scan of the syntax detector on its own, on every text of at *)
(* most MaxBracketLen characters over the brackets and a letter, and on    *)
(* some longer ones.                                                       *)
(***************************************************************************)
BracketAlphabet == {"(", ")", "[", "]", "{", "}", "a"}
Longer(S) == S \cup { s \o c : s \in S, c \in BracketAlphabet }
RECURSIVE TextsUpTo(_)
TextsUpTo(n) == IF n = 0 THEN {""} ELSE Longer(TextsUpTo(n - 1))
BracketTexts ==
    TextsUpTo(MaxBracketLen)
        \cup { "(a, [b)]", "(a, [b])", "(a", "#include <x>\nint f(", "def f(x:\n  y = [1}" }

BracketsInit ==
    /\ ClassifierIdle
    /\ EngineIdle
    /\ CompilerIdle
    /\ RouteIdle
    /\ scanned \in BracketTexts
    /\ scan = NoScan
    /\ ParserIdle

\* ml_classifier.py lines 77-84: the scan, and the detector that reports it;
\* then the concept predict_concept names (no model loaded), the suggestion
\* engine's own scan of the same text, and the template suggestion built for
\* that concept
ScanBrackets ==
    /\ ~scan.done
    /\ scan' = [done |-> TRUE, report |-> _check_bracket_matching(scanned),
                syntax_errors |-> detect_syntax_errors(scanned),
                concept |-> predict_concept(scanned, NoPipeline).concept,
                mismatch |-> _check_bracket_mismatch(scanned),
                template |-> _enhanced_fallback_suggestion(
                                 predict_concept(scanned, NoPipeline).concept, "", scanned)]
    /\ UNCHANGED scanned
    /\ UNCHANGED notScanVars

BracketsNext == ScanBrackets

SpecBrackets == BracketsInit /\ [][BracketsNext]_vars

(***************************************************************************)
(* The diagnostic parsers on their own: what _extract_issues and           *)
(* _parse_compiler_output make of what a toolchain left.  The diagnostic   *)
(* text is made of one to MaxLines lines of the kind the toolchain prints, *)
(* and of lines close to them.                                             *)
(***************************************************************************)
GccLines == <<
    "t.c:3:5: error: expected ';' before 'return'",
    "t.c:2:9: warning: unused variable 'x'",
    "t.c:1:12: error: expected '{' at end of input",
    "t.c:4:1: error: stray ';' after #define",
    "t.c:5:2: error: Expected ';' or expected '{' in #define X;",
    "t.c:6:3: error: expected '{' after #define Y;",
    "t.c: In function 'main':",
    "t.c:1:10: fatal error: x.h: No such file or directory",
    "  ",
    "x:1:2:3:4: error: m",
    "a:10:2:error:b",
    "t.c:7: error: no column",
    "t.c:8:1: error: " >>

GppLines == <<
    "t.cpp:2:9: warning: unused variable 'x'",
    "t.cpp:3:5: error: expected ';' before 'return'",
    "   12 |     return 0" >>

PythonLines == <<
    "  File \"t.py\", line 3",
    "    x = (1",
    "SyntaxError: invalid syntax",
    "IndentationError: unexpected indent" >>

JavacLines == << "T.java:1: error: ';' expected" >>

ParserTexts(language) ==
    CASE language = "c" -> Texts(GccLines)
      [] language = "cpp" -> Texts(GppLines)
      [] language = "python" -> Texts(PythonLines)
      [] language = "java" -> Texts(JavacLines)

ParseInit ==
    /\ ClassifierIdle
    /\ EngineIdle
    /\ CompilerIdle
    /\ RouteIdle
    /\ ScanIdle
    /\ \E language \in DOMAIN compilers :
          output \in [language : {language}, returncode : {0, 1},
                      stderr : {""} \cup ParserTexts(language)]
    /\ parse = NoParse

\* compiler_analyzer.py line 86 on its own, and line 42
ParseOutput ==
    /\ ~parse.done
    /\ parse' = [done |-> TRUE,
                 extracted |-> _extract_issues(output.stderr, output.language),
                 result |-> _parse_compiler_output(
                                Completed(output.returncode, output.stderr),
                                output.language)]
    /\ UNCHANGED output
    /\ UNCHANGED notParserVars

ParseNext == ParseOutput

SpecParse == ParseInit /\ [][ParseNext]_vars

(***************************************************************************)
(* Claims about the classifier (checked under SpecClassify).               *)
(***************************************************************************)
ErrorCategories == {"Syntax Error", "Compilation Error", "Logic Error"}

\* C1: predict_concept is a strict priority chain: Syntax Error whenever the
\* syntax detector matched; otherwise Compilation Error whenever the compilation
\* detector matched; otherwise Logic Error whenever the logic detector matched;
\* a label outside the three error categories only when all three detectors are
\* empty.  Confidences play no part in which family wins.
C1_StrictPriorityChain ==
    analysis.done =>
        /\ analysis.syntax_errors # <<>> => analysis.concept = "Syntax Error"
        /\ (analysis.syntax_errors = <<>> /\ analysis.compilation_errors # <<>>)
               => analysis.concept = "Compilation Error"
        /\ (/\ analysis.syntax_errors = <<>>
            /\ analysis.compilation_errors = <<>>
            /\ analysis.logic_errors # <<>>) => analysis.concept = "Logic Error"
        /\ analysis.concept \notin ErrorCategories
               => /\ analysis.syntax_errors = <<>>
                  /\ analysis.compilation_errors = <<>>
                  /\ analysis.logic_errors = <<>>

\* A 0.7-confidence syntax match has won over a 0.85-confidence compilation
\* match while a loaded pipeline would have answered with probability 0.95.
C1_Witness ==
    /\ analysis.done
    /\ analysis.concept = "Syntax Error" /\ analysis.confidence = 70
    /\ analysis.compilation_errors # <<>>
    /\ BestError(analysis.compilation_errors).confidence = 85
    /\ pipeline.loaded /\ pipeline.max_probability = 95

\* C2 as stated: whenever the compilation and the logic detector both match, the
\* concept is Compilation Error.
C2_Original ==
    (/\ analysis.done
     /\ analysis.compilation_errors # <<>>
     /\ analysis.logic_errors # <<>>) => analysis.concept = "Compilation Error"

\* C2 (amended): whenever the compilation and the logic detector both match and
\* the syntax detector does not, the concept is Compilation Error.
C2_CompilationOverLogic ==
    (/\ analysis.done
     /\ analysis.syntax_errors = <<>>
     /\ analysis.compilation_errors # <<>>
     /\ analysis.logic_errors # <<>>) => analysis.concept = "Compilation Error"

C2_Witness ==
    /\ analysis.done
    /\ analysis.syntax_errors = <<>>
    /\ analysis.compilation_errors # <<>>
    /\ analysis.logic_errors # <<>>
    /\ analysis.concept = "Compilation Error"

\* C3: a code that holds a #define directive followed by a semicolon is
\* classified Syntax Error, with or without a pipeline and whatever else the
\* code holds.
C3_DefineSemicolonIsSyntaxError ==
    (analysis.done /\ DefineSemicolon(code)) => analysis.concept = "Syntax Error"

Confidences(errors) == { errors[i].confidence : i \in 1..Len(errors) }

IsMaxOf(c, errors) ==
    /\ c \in Confidences(errors)
    /\ \A d \in Confidences(errors) : d <= c

\* C4: when an error category is returned, the confidence returned is the
\* largest confidence among the matches of the winning detector family.
C4_ConfidenceIsFamilyMax ==
    analysis.done =>
        /\ analysis.concept = "Syntax Error"
               => IsMaxOf(analysis.confidence, analysis.syntax_errors)
        /\ analysis.concept = "Compilation Error"
               => IsMaxOf(analysis.confidence, analysis.compilation_errors)
        /\ analysis.concept = "Logic Error"
               => IsMaxOf(analysis.confidence, analysis.logic_errors)

\* The winning family has several matches and its first match is not the best.
C4_Witness ==
    /\ analysis.done
    /\ analysis.concept = "Syntax Error"
    /\ Len(analysis.syntax_errors) >= 2
    /\ analysis.syntax_errors[1].confidence < analysis.confidence

\* The keyword table of C5, in its fixed order.
RuleTable == <<
    [label |-> "Binary Search", keywords |-> {"binary", "left <= right", "mid =", "while left <= right"}],
    [label |-> "Dynamic Programming", keywords |-> {"dp[", "memo", "dynamic", "previous"}],
    [label |-> "Graph Traversal", keywords |-> {"dfs", "bfs", "graph", "visited"}],
    [label |-> "Sorting", keywords |-> {"sort", "sorted", "quicksort", "mergesort"}],
    [label |-> "Tree Algorithms", keywords |-> {"tree", "root", "left", "right", "node"}],
    [label |-> "Backtracking", keywords |-> {"backtrack", "recursive"}],
    [label |-> "Greedy Algorithm", keywords |-> {"greedy", "minimum", "maximum"}],
    [label |-> "String Processing", keywords |-> {"string", "str", "char", "split"}],
    [label |-> "Mathematics", keywords |-> {"math", "sqrt", "formula"}] >>

RuleMatches(i, text) == ContainsAny(Lower(text), RuleTable[i].keywords)

\* C5: with all three detectors empty and no pipeline, the confidence is 0.5 and
\* the label is that of the first rule of the table with a keyword in the
\* lower-cased code, General Programming when no rule matches; the label is a
\* member of the closed concept set.
C5_KeywordFallback ==
    (/\ analysis.done
     /\ ~pipeline.loaded
     /\ analysis.syntax_errors = <<>>
     /\ analysis.compilation_errors = <<>>
     /\ analysis.logic_errors = <<>>)
    => /\ analysis.confidence = 50
       /\ analysis.concept \in concepts
       /\ \A i \in DOMAIN RuleTable :
             (RuleMatches(i, code) /\ \A j \in 1..(i - 1) : ~RuleMatches(j, code))
                 => analysis.concept = RuleTable[i].label
       /\ (\A i \in DOMAIN RuleTable : ~RuleMatches(i, code))
             => analysis.concept = "General Programming"

\* The keyword rules decided, and two rules matched: the earlier one won.
C5_Witness ==
    /\ analysis.done /\ ~pipeline.loaded
    /\ analysis.syntax_errors = <<>>
    /\ analysis.compilation_errors = <<>>
    /\ analysis.logic_errors = <<>>
    /\ analysis.concept = "Graph Traversal"
    /\ RuleMatches(4, code)

(***************************************************************************)
(* Claims about the suggestion engine (checked under SpecSuggest).         *)
(***************************************************************************)
\* C7: get_suggestion never lets a failure escape: with no chain, or when the
\* one chain invocation raises or returns unusable content, it returns the
\* template suggestion.  The source is the generative one only when the chain
\* returned the text; every fallback reports the template source.
C7_NeverPropagates ==
    suggestion.done =>
        /\ ~suggestion.raised
        /\ suggestion.reply.source = "llm"
               => (Len(suggestion.requests) = 1 /\ suggestion.fallback_codes = <<>>)
        /\ suggestion.fallback_codes # <<>>
               => suggestion.reply.source = "rule_based_enhanced"

\* C8: the code sent to the service is the original code when it has at most
\* 2000 characters and otherwise its first 2000 characters followed by the
\* truncation marker; the code handed to the template fallback when the service
\* fails is the original, full code.
C8_TruncationIsLocal ==
    suggestion.done =>
        /\ \A i \in DOMAIN suggestion.requests :
              suggestion.requests[i].code =
                  IF Len(call.code) <= 2000 THEN call.code
                  ELSE SubSeq(call.code, 1, 2000) \o "\n... (truncated)"
        /\ \A i \in DOMAIN suggestion.fallback_codes :
              suggestion.fallback_codes[i] = call.code

(***************************************************************************)
(* Claims about CompilerAnalyzer, checked under SpecCompiler.              *)
(***************************************************************************)
\* the files call c wrote that are still there with c's content
Leftovers(c) == { f \in files : f.writer = c /\ f.path \in calls[c].written }

\* C9: whenever analyze_code returns, on every exit path (compilation
\* succeeded, compilation failed, the toolchain invocation raised or timed out,
\* the parsing of its output raised), the scratch source file the call created
\* and the binary artifact it produced no longer exist.
C9_ScratchFilesDeletedOnReturn ==
    \A c \in Calls : calls[c].pc = "returned" => Leftovers(c) = {}

\* C10: of two analyze_code calls running at once, under every interleaving of
\* their steps, neither overwrites or deletes a file the other wrote: the paths
\* one call writes (scratch source file, compiler output artifact) are all
\* distinct from the paths the other writes, and no cleanup is disturbed.
C10_CallsDoNotInterfere ==
    /\ interference = {}
    /\ \A c, d \in Calls : c # d => calls[c].written \cap calls[d].written = {}
    /\ \A c \in Calls : calls[c].warnings = <<>>

(***************************************************************************)
(* Claims about the route, checked under SpecRoute.                        *)
(***************************************************************************)
\* non-empty code of at most the size ceiling, in a supported language
Accepted(request_) ==
    /\ request_.is_json
    /\ Strip(request_.code) # ""
    /\ Len(Strip(request_.code)) <= 10000
    /\ LanguageOf(request_) \in {"cpp", "c", "python", "java"}

\* no detector, no model and no keyword rule has anything to say of the code
NothingContributes(code_, pipeline_) ==
    /\ detect_syntax_errors(code_) = <<>>
    /\ detect_compilation_errors(code_) = <<>>
    /\ detect_logic_errors(code_) = <<>>
    /\ ~pipeline_.loaded
    /\ \A rule \in DOMAIN RuleTable : ~RuleMatches(rule, code_)

\* C6: every accepted input (non-empty code of at most the size ceiling,
\* supported language) ends with a complete result (concept, confidence,
\* suggestion, suggestion source) and never with an error outcome, whatever the
\* toolchain does and whether or not the generative service is configured; when
\* no detector, no model and no keyword rule contributes anything the result is
\* 'General Programming' with confidence 0.5 and, the generative service not
\* being there to answer, a suggestion from the templates.
C6_AcceptedInputGetsCompleteResult ==
    response.done /\ Accepted(request) =>
        /\ response.status = 200
        /\ response.body.concept # None
        /\ response.body.confidence \in 0..100
        /\ response.body.suggestion # <<>>
        /\ response.body.analysis_source \in {"llm", "rule_based_enhanced"}
        /\ NothingContributes(Strip(request.code), pipeline) =>
              /\ response.body.concept = "General Programming"
              /\ response.body.confidence = 50
              /\ ~chain => response.body.analysis_source = "rule_based_enhanced"

(***************************************************************************)
(* Claims about one call of analyze_code (checked under SpecAnalyze and    *)
(* SpecAnalyzeFair).                                                       *)
(***************************************************************************)
SupportedLanguages == {"cpp", "c", "python", "java"}

\* C11: a call of analyze_code with a language outside {cpp, c, python, java}
\* makes no scratch file and starts no toolchain process at any point, and what
\* it returns is the failure outcome that names the language and has an empty
\* issue list.
C11_UnsupportedLanguageFailsFirst ==
    \A c \in Calls :
       (calls[c].pc # "absent" /\ calls[c].language \notin SupportedLanguages) =>
          /\ calls[c].pc \in {"called", "returned"}
          /\ calls[c].temp_file = None
          /\ calls[c].written = {}
          /\ \A f \in files : f.writer # c
          /\ calls[c].invocations = 0
          /\ calls[c].outcome = NotStarted
          /\ calls[c].pc = "returned" =>
                 calls[c].result = [success |-> FALSE,
                                    error |-> "Unsupported language: " \o calls[c].language,
                                    issues |-> <<>>]

\* analyze_code(code, "ruby") has returned.
C11_Witness ==
    \E c \in Calls :
       /\ calls[c].pc = "returned"
       /\ calls[c].language = "ruby"
       /\ calls[c].result.success = FALSE
       /\ calls[c].result.error = "Unsupported language: ruby"

\* A call whose toolchain outlived the timeout has returned.
TimedOutCall(c) == calls[c].outcome = TimedOut

ReportsTimeout(result) ==
    /\ result.success = FALSE
    /\ result.issues = <<>>
    /\ Contains(result.error, "timed out after " \o ToString(CompileTimeout) \o " seconds")

\* C13: a call whose toolchain does not finish within the 10-second timeout has
\* returned, in the step that ends the toolchain, a failure outcome whose
\* message reports the timeout; no call starts the toolchain more than once;
\* and no call waits for its toolchain for ever.
C13_TimeoutReturnsFailure ==
    /\ [](\A c \in Calls :
            /\ calls[c].invocations <= 1
            /\ TimedOutCall(c) =>
                   /\ calls[c].pc = "returned"
                   /\ ReportsTimeout(calls[c].result))
    /\ \A c \in Calls : (calls[c].pc = "running") ~> (calls[c].pc # "running")

\* The g++ of an analyze_code(code, "cpp") call has been ended by the timeout.
C13_Witness ==
    \E c \in Calls :
       /\ calls[c].language = "cpp"
       /\ calls[c].invocations = 1
       /\ TimedOutCall(c)
       /\ calls[c].pc = "returned"
       /\ calls[c].result.error
             = "Analysis failed: Command '['g++', '-Wall', '-Wextra', '-std=c++17', "
                  \o "'/tmp/tmp1.cpp', '-o', '/tmp/output']' timed out after 10 seconds"

\* C18: whenever the toolchain of a supported language has exited, with whatever
\* status and diagnostic text, analyze_code returns a parsed outcome (success,
\* with compilation_successful and a possibly empty issue list), never an
\* 'Analysis failed' outcome.
C18_ParsingFailureDegrades ==
    \A c \in Calls :
       (/\ calls[c].pc = "returned"
        /\ calls[c].language \in SupportedLanguages
        /\ calls[c].outcome.kind = "exited") =>
           /\ calls[c].result.success
           /\ "compilation_successful" \in DOMAIN calls[c].result

(***************************************************************************)
(* Claims about the diagnostic parsers (checked under SpecParse).  A line  *)
(* reads <path>:<line>:<column>: <severity>: <message> when, for some      *)
(* colon of it that ends a non-empty path, digits run to the next colon,   *)
(* digits again to the colon after that, then, after white space if any,   *)
(* 'error' or 'warning' runs to a colon, and something follows it.         *)
(***************************************************************************)
\* the first colon after position p (Len(line) + 1 when none)
ColonAfter(line, p) == IF p >= Len(line) THEN Len(line) + 1 ELSE Find(line, p + 1, ":")
AllDigits(line, from, to) == to >= from /\ \A t \in from..to : Ch(line, t) \in Digit
\* where the white space that starts after position p ends
WordAfter(line, p) == IF p >= Len(line) THEN Len(line) + 1 ELSE SkipWhile(line, p + 1, WS)

\* the reading of line with colons at a, b, c and d and the severity from w on
ReadingWith(line, a, b, c, w, d) ==
    [ok |-> /\ a >= 2 /\ Ch(line, a) = ":"
            /\ AllDigits(line, a + 1, b - 1)
            /\ AllDigits(line, b + 1, c - 1)
            /\ SubSeq(line, w, d - 1) \in {"error", "warning"}
            /\ d < Len(line),
     line |-> SubSeq(line, a + 1, b - 1),
     column |-> SubSeq(line, b + 1, c - 1),
     severity |-> SubSeq(line, w, d - 1),
     message |-> SubSeq(line, d + 1, Len(line))]
ReadingFrom(line, a, b, c, w) == ReadingWith(line, a, b, c, w, ColonAfter(line, w - 1))
ReadingOver(line, a, b, c) == ReadingFrom(line, a, b, c, WordAfter(line, c))
ReadingAfter(line, a, b) == ReadingOver(line, a, b, ColonAfter(line, b))
Reading(line, a) == ReadingAfter(line, a, ColonAfter(line, a))

Grammatical(line) == \E a \in 2..Len(line) : Reading(line, a).ok

\* issue carries the line, column, severity and message of a reading of line
Carries(issue, line) ==
    \E a \in 2..Len(line) :
       /\ Reading(line, a).ok
       /\ issue.line = ParseInt(Reading(line, a).line)
       /\ issue.column = ParseInt(Reading(line, a).column)
       /\ issue.type = Reading(line, a).severity
       /\ issue.message = Strip(Reading(line, a).message)

\* C17: for c and cpp the parser of the diagnostic text emits one Issue for
\* each line that reads <path>:<line>:<column>: <error|warning>: <message> and
\* none for any other line; the Issues are in the order of their lines, and
\* each carries the line, column, severity and message of its own line.
C17_OneIssuePerDiagnosticLine ==
    (parse.done /\ output.language \in {"c", "cpp"}) =>
        /\ ~parse.extracted.raised
        /\ Len(parse.extracted.value)
              = Len(SelectSeq(Split(output.stderr), Grammatical))
        /\ \A k \in 1..Len(parse.extracted.value) :
              Carries(parse.extracted.value[k],
                      SelectSeq(Split(output.stderr), Grammatical)[k])

\* A note line and then an error line have been parsed: one Issue, the error
\* line's.
C17_Witness ==
    /\ parse.done
    /\ output.language = "c"
    /\ output.stderr = "t.c: In function 'main':\nt.c:3:5: error: expected ';' before 'return'"
    /\ Len(parse.extracted.value) = 1
    /\ parse.extracted.value[1].line = 3 /\ parse.extracted.value[1].column = 5
    /\ parse.extracted.value[1].type = "error"
    /\ parse.extracted.value[1].message = "expected ';' before 'return'"

\* the table of the claim, in its order: the hint and what the lower-cased
\* message has to contain
HintTable == <<
    [issue_type |-> "missing_semicolon", phrases |-> {"expected ';'"}],
    [issue_type |-> "missing_brace", phrases |-> {"expected '{'"}],
    [issue_type |-> "define_semicolon", phrases |-> {"#define", ";"}] >>
HintMatches(i, message) == \A ph \in HintTable[i].phrases : Contains(Lower(message), ph)
ClaimedHint(message) ==
    IF \E i \in DOMAIN HintTable : HintMatches(i, message)
    THEN HintTable[CHOOSE i \in DOMAIN HintTable :
                      HintMatches(i, message) /\ \A j \in 1..(i - 1) : ~HintMatches(j, message)
                  ].issue_type
    ELSE "general"

C20_ParsedOutcomeIsConsistent ==
    (parse.done /\ ~parse.result.raised) =>
        /\ output.returncode = 0 =>
              /\ parse.result.value.issues = <<>>
              /\ parse.result.value.compilation_successful
        /\ Len(parse.result.value.exact_fixes) = Len(parse.result.value.issues)
        /\ \A k \in 1..Len(parse.result.value.issues) :
              /\ parse.result.value.exact_fixes[k].line = parse.result.value.issues[k].line
              /\ parse.result.value.exact_fixes[k].confidence
                    = parse.result.value.issues[k].confidence
              /\ parse.result.value.exact_fixes[k].original_error
                    = parse.result.value.issues[k].message
        /\ parse.result.value.primary_issue
              = (IF parse.result.value.issues = <<>> THEN <<>>
                 ELSE << parse.result.value.issues[1] >>)

\* g++ has exited with status 1, a warning and an error: two issues, two fix
\* entries, the warning the primary issue.
C20_Witness ==
    /\ parse.done /\ ~parse.result.raised
    /\ output.language = "cpp"
    /\ output.stderr = "t.cpp:2:9: warning: unused variable 'x'\n"
                          \o "t.cpp:3:5: error: expected ';' before 'return'"
    /\ output.returncode = 1
    /\ Len(parse.result.value.issues) = 2
    /\ parse.result.value.primary_issue[1].type = "warning"
    /\ parse.result.value.exact_fixes[2].line = 3

TooLong == "Code too long (max 10000 characters)"

\* C14 as stated: a request whose code is longer than the ceiling is rejected
\* before any step of the pipeline, and one whose code is within the ceiling is
\* never rejected as too large.
C14_Original ==
    (response.done /\ request.is_json) =>
        /\ Len(request.code) > CodeCeiling =>
               /\ response.status = 400
               /\ response.ran = {} /\ response.saved = <<>>
        /\ Len(request.code) <= CodeCeiling => response.body # [error |-> TooLong]

\* C14: a request whose code, with the white space around it stripped, is longer
\* than 10000 characters gets the 400 rejection 'Code too long', and no
\* classifier, detector, toolchain, suggestion or persistence step has run for
\* it; a request whose stripped code is at most 10000 characters long is never
\* rejected as too long.
C14_SizeCeilingOnStrippedCode ==
    (response.done /\ request.is_json) =>
        /\ Len(Strip(request.code)) > CodeCeiling =>
               /\ response.status = 400
               /\ response.body = [error |-> TooLong]
               /\ response.ran = {} /\ response.saved = <<>> /\ submissions = <<>>
        /\ Len(Strip(request.code)) <= CodeCeiling => response.body # [error |-> TooLong]

\* A code of CodeCeiling + 1 characters other than white space has been rejected.
C14_Witness ==
    /\ response.done /\ request.is_json
    /\ Len(Strip(request.code)) = CodeCeiling + 1
    /\ response.status = 400 /\ response.body = [error |-> TooLong]

(***************************************************************************)
(* Claims about the bracket scan (checked under SpecBrackets).  A text is  *)
(* properly nested and balanced when cancelling adjacent pairs "()", "[]", *)
(* "{}" of its brackets, again and again, leaves nothing.                  *)
(***************************************************************************)
IsBracket(c) == c \in Openers \cup Closers
Brackets(s) == SelectSeq([i \in 1..Len(s) |-> Ch(s, i)], IsBracket)

AdjacentPair(b, i) == b[i] \in Openers /\ b[i + 1] = pairs[b[i]]
Without(b, i) == SubSeq(b, 1, i - 1) \o SubSeq(b, i + 2, Len(b))
RECURSIVE Cancelled(_)
Cancelled(b) ==
    IF \E i \in 1..(Len(b) - 1) : AdjacentPair(b, i)
    THEN Cancelled(Without(b, CHOOSE i \in 1..(Len(b) - 1) : AdjacentPair(b, i)))
    ELSE b
Balanced(s) == Cancelled(Brackets(s)) = <<>>

\* the brackets still open before the k-th bracket, innermost last
OpenBefore(b, k) == Cancelled(SubSeq(b, 1, k - 1))
\* the k-th bracket is a closer that closes nothing or the wrong opener
Offends(b, k) ==
    /\ b[k] \in Closers
    /\ \/ OpenBefore(b, k) = <<>>
       \/ pairs[OpenBefore(b, k)[Len(OpenBefore(b, k))]] # b[k]
FirstOffender(b) ==
    CHOOSE k \in 1..Len(b) : Offends(b, k) /\ \A j \in 1..(k - 1) : ~Offends(b, j)

\* what the scan is to report for a text whose brackets are b
ReportsAsClaimed(report, b) ==
    IF Cancelled(b) = <<>> THEN report.kind = None
    ELSE IF \E k \in 1..Len(b) : Offends(b, k)
    THEN IF OpenBefore(b, FirstOffender(b)) = <<>>
         THEN report.kind = "Unmatched closing" /\ report.char = b[FirstOffender(b)]
         ELSE /\ report.kind = "Mismatched brackets"
              /\ report.char = b[FirstOffender(b)]
              /\ report.opening =
                     OpenBefore(b, FirstOffender(b))[Len(OpenBefore(b, FirstOffender(b)))]
    ELSE /\ report.kind = "Unmatched opening"
         /\ \E k \in 1..Len(Cancelled(b)) : report.opening = Cancelled(b)[k]

BracketIssues(errors) ==
    { i \in 1..Len(errors) : errors[i].issue = "Unmatched brackets/braces" }

\* C15: the bracket scan reports nothing exactly when the brackets of the text
\* are properly nested and balanced; otherwise it reports one thing: the first
\* closer that closes nothing or does not match the innermost open bracket, or,
\* when every closer matched, an opener left open.  The syntax detector then has
\* exactly one bracket issue, of confidence 0.9, and none when nothing is
\* reported.  '(a, [b)]' gives a mismatched-bracket report, '(a, [b])' none,
\* '(a' an unmatched-opener report.
C15_BracketScanReportsFirstOffence ==
    scan.done =>
        /\ scan.report.kind = None <=> Balanced(scanned)
        /\ ReportsAsClaimed(scan.report, Brackets(scanned))
        /\ Cardinality(BracketIssues(scan.syntax_errors))
               = (IF Balanced(scanned) THEN 0 ELSE 1)
        /\ \A i \in BracketIssues(scan.syntax_errors) :
               scan.syntax_errors[i].confidence = 90
        /\ scanned = "(a, [b)]" => scan.report.kind = "Mismatched brackets"
        /\ scanned = "(a, [b])" => scan.report.kind = None
        /\ scanned = "(a" => scan.report.kind = "Unmatched opening"

\* '(a, [b)]' has been scanned: '[' at 4 and ')' at 6 do not match.
C15_Witness ==
    /\ scan.done
    /\ scanned = "(a, [b)]"
    /\ scan.report = [kind |-> "Mismatched brackets", opening |-> "[", pos |-> 4,
                      char |-> ")", at |-> 6]
    /\ scan.syntax_errors = << Err("Unmatched brackets/braces", 90) >>

\* the first of the two lines lines 177-179 of llm_utils.py append
BracketBullet == "Bracket Mismatch: Check for unmatched brackets/braces"
\* the template suggestion was returned and carries the bullet
HasBracketBullet(template) ==
    /\ ~template.raised
    /\ \E i \in DOMAIN template.value.suggestion :
           template.value.suggestion[i] = BracketBullet

\* the two scans give the same verdict on the scanned text
ScansAgree == scan.done => (scan.mismatch <=> scan.report.kind # None)

\* C21: on every text the suggestion engine's _check_bracket_mismatch answers
\* True exactly when the classifier's _check_bracket_matching reports
\* something; hence whenever the classifier names 'Syntax Error' for a text
\* with a bracket issue, the template suggestion for it carries the
\* bracket-mismatch bullet, and the bullet is in no template suggestion for a
\* text the classifier's scan finds balanced.
C21_BracketCheckersAgree ==
    scan.done =>
        /\ scan.mismatch <=> scan.report.kind # None
        /\ (scan.concept = "Syntax Error" /\ BracketIssues(scan.syntax_errors) # {})
               => HasBracketBullet(scan.template)
        /\ scan.report.kind = None => ~HasBracketBullet(scan.template)

====
